---- MODULE Spec2Model ----
(***************************************************************************)
(* Model of the trigger-driven action scheduler of research/fragattack.py: *)
(* Action / Test (the queue of scheduled operations), Station (per-peer    *)
(* runtime: keys, counters, trigger dispatcher, action executor) and the   *)
(* two Daemon roles (Authenticator, Supplicant) with their event loop.     *)
(*                                                                         *)
(* Every handler of the program is an operator that maps a world record W  *)
(* (the test object, the stations, the daemon, the outputs of the running  *)
(* loop iteration, the process status and the history) to the world after  *)
(* the handler.  One action of Next is one iteration of Daemon.run: the    *)
(* select wait, one event handler, and the periodic time_tick.             *)
(***************************************************************************)
EXTENDS Integers, Sequences, FiniteSets, TLC

\* ------------------------------------------------------------------ bounds

\* the headers that the stations may build in all (each advances a seqnum);
\* a loop iteration that would exceed it is disabled
MaxHeaders == 5
\* the packet numbers of the stations may grow by up to this much in all
MaxPnInc == 3
\* the longest queue of a test built in code
MaxQueue == 3

\* ------------------------------------------------------- program constants

\* Python None, for string-valued and record-valued things
None == "None"
\* Python None, where the value is otherwise an integer
NoneInt == -99

\* Action triggers
StartAuth == 0
BeforeAuth == 1
AfterAuth == 2
Connected == 3

\* Action kinds
GetIp == 0
Rekey == 1
Reconnect == 2
Roam == 3
Inject == 4
Func == 5

\* request types
REQ_ARP == 0
REQ_ICMP == 1
REQ_DHCP == 2

\* Station.pn starts at 0x100, Station.seqnum at 1
PnInit == 256
SeqInit == 1

\* the select timeout of Daemon.run is half a second: time is counted in
\* units of that timeout
TicksPerSecond == 2
\* time.time() + 1
ConnectedDelay == 1 * TicksPerSecond
\* time.time() + 2.5
RetransDelay == (5 * TicksPerSecond) \div 2

\* the secure bit of the EAPOL key-info field
KEY_SECURE == 512

\* ------------------------------------------------------------------ frames

\* A frame: sequence-control field, more-fragments flag, whether addr1 is a
\* multicast address, what it carries and which part of the payload it holds.
NoFrame == [SC |-> NoneInt, MF |-> FALSE, mcast |-> FALSE, kind |-> None, part |-> 0]

\* Dot11(type="Data", SC=(seqnum << 4)) with the addresses of set_header
Header(seqnum) == [SC |-> seqnum * 16, MF |-> FALSE, mcast |-> FALSE, kind |-> "header", part |-> 0]

\* libwifi.create_fragments: num_frags fragments of one payload under one
\* header; fragment numbers 0..n-1, more-fragments on all but the last
create_fragments(header, kind, num_frags) ==
    [i \in 1..num_frags |->
        [SC |-> header.SC + (i - 1), MF |-> (i < num_frags), mcast |-> header.mcast,
         kind |-> kind, part |-> i]]

\* bitwise helpers on the sequence-control field
BitSet(x, b) == (x \div b) % 2 = 1
\* adding the bit instead of flipping it
AddBit(x, b) == x + b
XorBit(x, b) == IF BitSet(x, b) THEN x - b ELSE x + b
OrBit(x, b) == IF BitSet(x, b) THEN x ELSE x + b

\* ----------------------------------------------------------------- Action

\* Action.__init__; id is the identity of the Python object, func the name of
\* the callback (None if there is none), wait is NoneInt, 0 or 1
Action(id, trigger, action, func, enc, wait) ==
    [id |-> id,
     trigger |-> trigger,
     action |-> IF func # None THEN Func ELSE action,
     func |-> func,
     wait |-> IF wait = NoneInt THEN action \in {Rekey, Reconnect, Roam} ELSE wait = 1,
     encrypted |-> enc,
     inc_pn |-> 1,
     delay |-> NoneInt,
     frame |-> NoFrame,
     key |-> NoneInt]

\* what a callback returns
FuncResult(func) == IF func = "ret_none" THEN None ELSE "drop"

\* ------------------------------------------------------------------- Test

\* Test.__init__ with the fields of its subclasses
Test(kind, actions, ptype, bcast, separate_with, as_msdu) ==
    [kind |-> kind, actions |-> actions, generated |-> FALSE,
     delay |-> NoneInt, inc_pn |-> NoneInt,
     ptype |-> ptype, bcast |-> bcast, separate_with |-> separate_with,
     as_msdu |-> as_msdu, check_fn |-> FALSE]

\* Test.set_options
set_options(test, delay, inc_pn) == [test EXCEPT !.delay = delay, !.inc_pn = inc_pn]

\* next_trigger_is comparing nothing: any trigger matches a queued action
next_trigger_any(W, trigger) ==
    Len(W.test.actions) > 0

\* Test.next_trigger_is
next_trigger_is(W, trigger) ==
    IF Len(W.test.actions) = 0 THEN FALSE
    ELSE W.test.actions[1].trigger = trigger

\* Test.get_actions, as the positions of the matching actions
get_actions(actions, action) ==
    SelectSeq([i \in 1..Len(actions) |-> i], LAMBDA i : actions[i].action = action)

\* the number of Inject actions at positions <= i
InjectRank(actions, i) == Cardinality({j \in 1..i : actions[j].action = Inject})

\* enforce_delay writing the delay into every Inject action
enforce_delay_all(test) ==
    IF test.delay = NoneInt \/ test.delay <= 0 THEN test
    ELSE [test EXCEPT !.actions =
            [i \in 1..Len(test.actions) |->
                IF test.actions[i].action = Inject
                THEN [test.actions[i] EXCEPT !.delay = test.delay]
                ELSE test.actions[i]]]

\* Test.enforce_delay
enforce_delay(test) ==
    IF test.delay = NoneInt \/ test.delay <= 0 THEN test
    ELSE [test EXCEPT !.actions =
            [i \in 1..Len(test.actions) |->
                IF test.actions[i].action = Inject /\ InjectRank(test.actions, i) > 1
                THEN [test.actions[i] EXCEPT !.delay = test.delay]
                ELSE test.actions[i]]]

\* Test.enforce_inc_pn
enforce_inc_pn(test) ==
    IF test.inc_pn = NoneInt THEN test
    ELSE [test EXCEPT !.actions =
            [i \in 1..Len(test.actions) |->
                IF test.actions[i].action = Inject /\ InjectRank(test.actions, i) > 1
                THEN [test.actions[i] EXCEPT !.inc_pn = test.inc_pn]
                ELSE test.actions[i]]]

\* ---------------------------------------------------------------- helpers

Running(W) == W.proc = "running"

\* an uncaught Python exception ends the process
Raise(W, what) == IF Running(W) THEN [W EXCEPT !.proc = "aborted", !.out.error = what] ELSE W

\* list.insert(i, x) with a 0-based index i
InsertAt(s, i, x) == SubSeq(s, 1, i) \o <<x>> \o SubSeq(s, i + 1, Len(s))

Min(a, b) == IF a < b THEN a ELSE b
Max(a, b) == IF a > b THEN a ELSE b

\* one timer after dt units of time; a timer at 0 is due
TimerAfter(t, dt) == IF t = NoneInt THEN NoneInt ELSE Max(0, t - dt)

\* time.sleep and the select wait: every pending timer comes dt units closer
Elapse(W, dt) ==
    [W EXCEPT !.stations = [m \in DOMAIN W.stations |->
                              [W.stations[m] EXCEPT !.time_connected = TimerAfter(@, dt)]],
              !.daemon.time_retrans_dhcp = TimerAfter(@, dt)]

\* ----------------------------------------------------------- control channel

\* how much the loop iteration had emitted and consumed when a command got
\* a failing reply (ncmds 0: none did)
NoFail == [ncmds |-> 0, nsent |-> 0, nops |-> 0, npopped |-> 0]

FailMark(W) ==
    [ncmds |-> Len(W.out.cmds) + 1, nsent |-> Len(W.out.sent), nops |-> Len(W.out.ops),
     npopped |-> Len(W.hist.popped)]

\* wpaspy_command logging a failing reply and returning it
wpaspy_command_lenient(W, cmd) ==
    IF ~Running(W) THEN W
    ELSE LET W1 == [W EXCEPT !.out.cmds = Append(@, cmd)]
         IN IF Len(W1.out.cmds) = W.inp.failAt
            THEN [W1 EXCEPT !.out.error = W.inp.failKind, !.out.fail = FailMark(W)]
            ELSE W1

\* wpaspy_command: the command is sent; a reply holding FAIL or UNKNOWN
\* COMMAND ends the process (quit(1)).  W.inp.failAt is the number of the
\* command of this loop iteration that gets such a reply (0: none does).
wpaspy_command(W, cmd) ==
    IF ~Running(W) THEN W
    ELSE LET W1 == [W EXCEPT !.out.cmds = Append(@, cmd)]
         IN IF Len(W1.out.cmds) = W.inp.failAt
            THEN [W1 EXCEPT !.proc = "quit", !.out.error = W.inp.failKind,
                            !.out.fail = FailMark(W)]
            ELSE W1

\* ---------------------------------------------------------------- Station

\* reset_keys resetting the packet-number counter as well
reset_keys_and_pn(sta) ==
    [sta EXCEPT !.tk = None, !.gtk = None, !.gtk_idx = NoneInt, !.pn = PnInit]

\* Station.reset_keys
reset_keys(sta) == [sta EXCEPT !.tk = None, !.gtk = None, !.gtk_idx = NoneInt]

\* Station.__init__
Station(test, mac, ds_status) ==
    [test |-> test,
     txed_before_auth |-> FALSE,
     txed_before_auth_done |-> FALSE,
     obtained_ip |-> FALSE,
     waiting_on_ip |-> FALSE,
     tk |-> None, gtk |-> None, gtk_idx |-> NoneInt,
     pn |-> PnInit,
     FCfield |-> ds_status,
     seqnum |-> SeqInit,
     mac |-> mac, ip |-> None,
     bss |-> None,
     peermac |-> None, peerip |-> None,
     time_connected |-> NoneInt]

\* Station.get_peermac
get_peermac(sta) == IF sta.peermac = None THEN sta.bss ELSE sta.peermac

\* Station.get_header (with set_header): returns the header and the world
\* with the sequence number advanced
get_header(W, m) ==
    [W |-> [W EXCEPT !.stations[m].seqnum = @ + 1],
     header |-> Header(W.stations[m].seqnum)]

\* generate_request: one header is taken; the request and its check follow
\* from the request type
generate_request(W, m, ptype) ==
    LET H == get_header(W, m)
    IN [W |-> H.W, header |-> H.header,
        request |-> CASE ptype = REQ_ARP -> "arp"
                      [] ptype = REQ_ICMP -> "icmp"
                      [] OTHER -> "dhcp"]

\* the length of a key in bytes
KeyLen(key) ==
    CASE key \in {"tk16", "gtk16", "zero16"} -> 16
      [] key \in {"tk13", "gtk13", "zero13"} -> 13
      [] OTHER -> 0

\* b"\x00" * length
ZeroKey(length) == IF length = 16 THEN "zero16" ELSE "zero13"

\* Daemon.inject_mon: a frame leaves on the monitor interface; sending
\* nothing (None) raises in the socket
inject_mon(W, frame, cipher, key, pn, keyid, via) ==
    IF ~Running(W) THEN W
    ELSE IF frame = NoFrame THEN Raise(W, "AttributeError")
    ELSE [W EXCEPT !.out.sent = Append(@,
            [frame |-> frame, cipher |-> cipher, key |-> key, pn |-> pn,
             keyid |-> keyid, via |-> via])]

\* encrypt taking the pairwise key whatever the destination address
encrypt_pairwise(W, m, frame, inc_pn, force_key) ==
    LET sta == W.stations[m]
        pn == sta.pn + inc_pn
        mcast == frame # NoFrame /\ frame.mcast
        keyid == 0
        Failed(W2, what) ==
            [W |-> Raise(W2, what), cipher |-> None, key |-> None, pn |-> pn, keyid |-> keyid]
        Result(W2, sel, key) ==
            IF frame = NoFrame THEN Failed(W2, "AttributeError")
            ELSE IF sel = None THEN Failed(W2, "TypeError")
            ELSE [W |-> W2,
                  cipher |-> IF KeyLen(key) = 16 THEN "ccmp" ELSE "wep",
                  key |-> key, pn |-> pn, keyid |-> keyid]
        Logged(sel, key) ==
            Result([W EXCEPT !.stations[m].pn = pn,
                             !.out.encs = Append(@,
                                [sta |-> m, old |-> sta.pn, pn |-> pn,
                                 prevmax |-> W.hist.maxpn[m], inc_pn |-> inc_pn,
                                 key |-> key, keyid |-> keyid, mcast |-> mcast]),
                             !.hist.maxpn[m] = Max(@, pn)],
                   sel, key)
        Selected(sel) ==
            Logged(sel, IF force_key = 0 /\ sel # None THEN ZeroKey(KeyLen(sel)) ELSE sel)
    IN IF ~Running(W) THEN [W |-> W, cipher |-> None, key |-> None, pn |-> pn, keyid |-> keyid]
       ELSE Selected(IF frame = NoFrame THEN None
                     ELSE sta.tk)

\* Station.encrypt: returns what was encrypted and how.  Every call is
\* recorded in out.encs with the counter before the call (old), the packet
\* number used and the largest packet number the station used before.
encrypt(W, m, frame, inc_pn, force_key) ==
    LET sta == W.stations[m]
        pn == sta.pn + inc_pn
        mcast == frame # NoFrame /\ frame.mcast
        keyid == IF ~mcast THEN 0 ELSE sta.gtk_idx
        Failed(W2, what) ==
            [W |-> Raise(W2, what), cipher |-> None, key |-> None, pn |-> pn, keyid |-> keyid]
        Result(W2, sel, key) ==
            IF frame = NoFrame THEN Failed(W2, "AttributeError")
            ELSE IF sel = None THEN Failed(W2, "TypeError")
            ELSE [W |-> W2,
                  cipher |-> IF KeyLen(key) = 16 THEN "ccmp" ELSE "wep",
                  key |-> key, pn |-> pn, keyid |-> keyid]
        Logged(sel, key) ==
            Result([W EXCEPT !.stations[m].pn = pn,
                             !.out.encs = Append(@,
                                [sta |-> m, old |-> sta.pn, pn |-> pn,
                                 prevmax |-> W.hist.maxpn[m], inc_pn |-> inc_pn,
                                 key |-> key, keyid |-> keyid, mcast |-> mcast]),
                             !.hist.maxpn[m] = Max(@, pn)],
                   sel, key)
        Selected(sel) ==
            Logged(sel, IF force_key = 0 /\ sel # None THEN ZeroKey(KeyLen(sel)) ELSE sel)
    IN IF ~Running(W) THEN [W |-> W, cipher |-> None, key |-> None, pn |-> pn, keyid |-> keyid]
       ELSE Selected(IF frame = NoFrame THEN None
                     ELSE IF ~mcast THEN sta.tk ELSE sta.gtk)

\* Station.send_mon: data is [kind, ether, dstmcast]
send_mon(W, m, data) ==
    LET toDS == W.stations[m].FCfield = "to-DS"
        Frame(header) ==
            [header EXCEPT !.kind = data.kind,
                           !.mcast = IF data.ether /\ ~toDS THEN data.dstmcast ELSE FALSE]
        Encrypted(E, p) == inject_mon(E.W, p, E.cipher, E.key, E.pn, E.keyid, "send_mon")
        Send(W1, p) ==
            IF W1.stations[m].tk # None
            THEN Encrypted(encrypt(W1, m, p, 1, NoneInt), p)
            ELSE inject_mon(W1, p, "plain", None, NoneInt, NoneInt, "send_mon")
        WithHeader(H) == Send(H.W, Frame(H.header))
    IN IF ~Running(W) THEN W
       ELSE WithHeader(get_header(W, m))

\* handle_connecting starting the station afresh: the flags of the triggers
\* and the pending wake-up are reset with the keys
handle_connecting_afresh(W, m, bss) ==
    [W EXCEPT !.stations[m] = reset_keys([@ EXCEPT !.bss = bss,
                                                   !.txed_before_auth = FALSE,
                                                   !.txed_before_auth_done = FALSE,
                                                   !.time_connected = NoneInt]),
              !.out.events = Append(@, <<"handle_connecting", m>>)]

\* Station.handle_connecting
handle_connecting(W, m, bss) ==
    [W EXCEPT !.stations[m] = reset_keys([@ EXCEPT !.bss = bss]),
              !.out.events = Append(@, <<"handle_connecting", m>>)]

\* Station.set_peermac
set_peermac(W, m, peermac) == [W EXCEPT !.stations[m].peermac = peermac]

\* ------------------------------------------------- frame generation (prepare)

\* the frames assigned to the Inject actions from the last one backwards
AssignFramesReversed(actions, frames, bcast) ==
    [i \in 1..Len(actions) |->
        IF actions[i].action = Inject /\ InjectRank(actions, i) <= Len(frames)
        THEN [actions[i] EXCEPT !.frame =
                [frames[Len(frames) + 1 - InjectRank(actions, i)] EXCEPT
                    !.mcast = IF bcast THEN TRUE ELSE @]]
        ELSE actions[i]]

\* the frame of the k-th Inject action of the queue becomes frames[k]
\* (zip stops at the shorter list)
AssignFrames(actions, frames, bcast) ==
    [i \in 1..Len(actions) |->
        IF actions[i].action = Inject /\ InjectRank(actions, i) <= Len(frames)
        THEN [actions[i] EXCEPT !.frame =
                [frames[InjectRank(actions, i)] EXCEPT
                    !.mcast = IF bcast THEN TRUE ELSE @]]
        ELSE actions[i]]

\* the separator of ping_frag_sep after station.set_header
SeparatorFrame == [SC |-> 33 * 16, MF |-> FALSE, mcast |-> FALSE, kind |-> "sep", part |-> 0]

\* the loop giving every separator the Connected trigger
RECURSIVE insert_separators_connected(_, _)
insert_separators_connected(actions, i) ==
    IF i <= 0 THEN actions
    ELSE LET prev_frag == actions[i]
             sep_frag == [Action(0 - prev_frag.id, Connected, Inject, None,
                                 prev_frag.encrypted, NoneInt)
                          EXCEPT !.frame = SeparatorFrame]
         IN IF prev_frag.action # Inject
            THEN insert_separators_connected(actions, i - 1)
            ELSE insert_separators_connected(InsertAt(actions, i, sep_frag), i - 1)

\* PingTest.prepare, the loop "for i in range(len(self.actions) - 1, 0, -1)":
\* i is the loop index; a separator created after action x has id -x.id
RECURSIVE insert_separators(_, _)
insert_separators(actions, i) ==
    IF i <= 0 THEN actions
    ELSE LET prev_frag == actions[i]
             sep_frag == [Action(0 - prev_frag.id, prev_frag.trigger, Inject, None,
                                 prev_frag.encrypted, NoneInt)
                          EXCEPT !.frame = SeparatorFrame]
         IN IF prev_frag.action # Inject
            THEN insert_separators(actions, i - 1)
            ELSE insert_separators(InsertAt(actions, i, sep_frag), i - 1)

\* PingTest.prepare
PingTest_prepare(W, m) ==
    LET G == generate_request(W, m, W.test.ptype)
        kind == IF W.test.as_msdu THEN "amsdu_" \o G.request ELSE G.request
        num_frags == Len(get_actions(W.test.actions, Inject))
        frames == create_fragments(G.header, kind, num_frags)
        assigned == AssignFrames(W.test.actions, frames, W.test.bcast)
        separated == IF W.test.separate_with
                     THEN insert_separators(assigned, Len(assigned) - 1)
                     ELSE assigned
    IN [G.W EXCEPT !.test.check_fn = TRUE, !.test.actions = separated]

\* LinuxTest.prepare
LinuxTest_prepare(W, m) ==
    LET G == generate_request(W, m, W.test.ptype)
        frags == create_fragments(G.header, G.request, 2)
        frag1 == frags[1]
        frag2 == frags[2]
        frag2enc == [frag2 EXCEPT !.SC = XorBit(@, 16)]
    IN IF Len(W.test.actions) < 3 THEN Raise(G.W, "IndexError")
       ELSE [G.W EXCEPT !.test.check_fn = TRUE,
                        !.test.actions[1].frame = frag1,
                        !.test.actions[2].frame = frag2enc,
                        !.test.actions[3].frame = frag2]

\* MacOsTest.prepare
MacOsTest_prepare(W, m) ==
    LET H == get_header(W, m)
        frag1 == create_fragments(H.header, "eapol", 2)[1]
        G == generate_request(H.W, m, W.test.ptype)
        single == create_fragments(H.header, G.request, 1)[1]
        frag2 == [single EXCEPT !.SC = OrBit(@, 1), !.mcast = TRUE]
        W1 == [G.W EXCEPT !.test.check_fn = TRUE, !.test.actions[1].frame = frag1]
    IN IF Len(W.test.actions) < 2 THEN Raise(W1, "IndexError")
       ELSE [W1 EXCEPT !.test.actions[2].frame = frag2]

\* EapolMsduTest.prepare
EapolMsduTest_prepare(W, m) ==
    LET G == generate_request(W, m, W.test.ptype)
        header == G.header
        frames == create_fragments(header, "eapol_amsdu_" \o G.request, 1)
        auth == [SC |-> 0, MF |-> FALSE, mcast |-> FALSE, kind |-> "auth", part |-> 0]
        W1 == [G.W EXCEPT !.test.check_fn = TRUE, !.test.actions[1].frame = auth]
    IN IF Len(W.test.actions) < 2 THEN Raise(W1, "IndexError")
       ELSE [W1 EXCEPT !.test.actions[2].frame = frames[1]]

\* the prepare method of the test's class
prepare(W, m) ==
    CASE W.test.kind = "PingTest" -> PingTest_prepare(W, m)
      [] W.test.kind = "LinuxTest" -> LinuxTest_prepare(W, m)
      [] W.test.kind = "MacOsTest" -> MacOsTest_prepare(W, m)
      [] OTHER -> EapolMsduTest_prepare(W, m)

\* the ids of a queue of actions
Ids(actions) == [i \in 1..Len(actions) |-> actions[i].id]

\* what enforce_delay and enforce_inc_pn can change of a queue of actions
Opts(actions) ==
    [i \in 1..Len(actions) |->
        [id |-> actions[i].id, action |-> actions[i].action,
         delay |-> actions[i].delay, inc_pn |-> actions[i].inc_pn]]

\* Test.generate.  The history counts the runs and keeps the order of the
\* queue as generation leaves it (after the actions already consumed), and
\* the delay and inc_pn of the queue as prepare left it and as generation
\* leaves it.
generate(W, m) ==
    LET Ordered(W2) == [W2 EXCEPT !.hist.order = W.hist.popped \o Ids(W2.test.actions)]
        Kept(W1, t) ==
            [W1 EXCEPT !.test = t,
                       !.hist.prepared = Opts(W1.test.actions),
                       !.hist.enforced = Opts(t.actions)]
        Enforced(W1) ==
            IF ~Running(W1) THEN W1
            ELSE Ordered(Kept(W1, enforce_inc_pn(enforce_delay(W1.test))))
    IN Enforced(prepare([W EXCEPT !.hist.genCount = @ + 1, !.hist.genBy = m], m))

\* Test.next_action: returns the action (an action with id 0 for None) and
\* the world after it
NoAction == Action(0, NoneInt, NoneInt, None, FALSE, 0)

\* next_action taking the action at the tail of the queue
next_action_last(W, m) ==
    LET Generated(G) == IF Running(G) THEN [G EXCEPT !.test.generated = TRUE] ELSE G
        Taken(W1, n) ==
            IF ~Running(W1) THEN [W |-> W1, act |-> NoAction]
            ELSE [W |-> [W1 EXCEPT !.test.actions = SubSeq(@, 1, n - 1),
                                   !.hist.popped = Append(@, W1.test.actions[n].id),
                                   !.hist.by = Append(@, m)],
                  act |-> W1.test.actions[n]]
        Last(W1) == Taken(W1, Len(W1.test.actions))
    IN IF Len(W.test.actions) = 0 THEN [W |-> W, act |-> NoAction]
       ELSE Last(IF W.test.actions[1].action = Inject /\ ~W.test.generated
                 THEN Generated(generate(W, m))
                 ELSE W)

\* next_action generating the frames before every Inject action
next_action_regen(W, m) ==
    LET Generated(G) == IF Running(G) THEN [G EXCEPT !.test.generated = TRUE] ELSE G
        Taken(W1) ==
            IF ~Running(W1) THEN [W |-> W1, act |-> NoAction]
            ELSE [W |-> [W1 EXCEPT !.test.actions = Tail(@),
                                   !.hist.popped = Append(@, W1.test.actions[1].id),
                                   !.hist.by = Append(@, m)],
                  act |-> W1.test.actions[1]]
    IN IF Len(W.test.actions) = 0 THEN [W |-> W, act |-> NoAction]
       ELSE Taken(IF W.test.actions[1].action = Inject
                  THEN Generated(generate(W, m))
                  ELSE W)

\* next_action leaving the action it returns in the queue, behind the
\* others, as if every station were to have it
next_action_requeue(W, m) ==
    LET Generated(G) == IF Running(G) THEN [G EXCEPT !.test.generated = TRUE] ELSE G
        Taken(W1) ==
            IF ~Running(W1) THEN [W |-> W1, act |-> NoAction]
            ELSE [W |-> [W1 EXCEPT !.test.actions = Append(Tail(@), W1.test.actions[1]),
                                   !.hist.popped = Append(@, W1.test.actions[1].id),
                                   !.hist.by = Append(@, m)],
                  act |-> W1.test.actions[1]]
    IN IF Len(W.test.actions) = 0 THEN [W |-> W, act |-> NoAction]
       ELSE Taken(IF W.test.actions[1].action = Inject /\ ~W.test.generated
                  THEN Generated(generate(W, m))
                  ELSE W)

next_action(W, m) ==
    LET Generated(G) == IF Running(G) THEN [G EXCEPT !.test.generated = TRUE] ELSE G
        Taken(W1) ==
            IF ~Running(W1) THEN [W |-> W1, act |-> NoAction]
            ELSE [W |-> [W1 EXCEPT !.test.actions = Tail(@),
                                   !.hist.popped = Append(@, W1.test.actions[1].id),
                                   !.hist.by = Append(@, m)],
                  act |-> W1.test.actions[1]]
    IN IF Len(W.test.actions) = 0 THEN [W |-> W, act |-> NoAction]
       ELSE Taken(IF W.test.actions[1].action = Inject /\ ~W.test.generated
                  THEN Generated(generate(W, m))
                  ELSE W)

\* ------------------------------------------- Daemon operations used by Station

\* Supplicant.send_dhcp_discover
send_dhcp_discover(W) ==
    LET W1 == IF W.daemon.dhcp_xid = None THEN [W EXCEPT !.daemon.dhcp_xid = "xid"] ELSE W
    IN send_mon(W1, "sta", [kind |-> "dhcp_discover", ether |-> TRUE, dstmcast |-> TRUE])

\* Supplicant.send_dhcp_request
send_dhcp_request(W) ==
    send_mon(W, "sta", [kind |-> "dhcp_request", ether |-> TRUE, dstmcast |-> TRUE])

\* Authenticator.get_ip / Supplicant.get_ip
get_ip(W, m) ==
    LET Armed(W1) ==
            IF Running(W1) THEN [W1 EXCEPT !.daemon.time_retrans_dhcp = RetransDelay] ELSE W1
        Request(W0) ==
            IF W.daemon.role = "Authenticator" THEN W0
            ELSE Armed(IF ~W0.daemon.dhcp_offer_frame
                       THEN send_dhcp_discover(W0)
                       ELSE send_dhcp_request(W0))
    IN IF ~Running(W) THEN W
       ELSE Request([W EXCEPT !.out.ops = Append(@, <<"get_ip", m>>)])

\* Authenticator.rekey / Supplicant.rekey
rekey(W, m) ==
    LET W0 == [W EXCEPT !.out.ops = Append(@, <<"rekey", m>>)]
    IN IF ~Running(W) THEN W
       ELSE IF W.daemon.role = "Authenticator"
       THEN wpaspy_command(W0, <<"REKEY_PTK", get_peermac(W.stations[m])>>)
       ELSE W0

\* Supplicant.roam; the Authenticator has no such method
roam(W, m) ==
    LET W0 == [W EXCEPT !.out.ops = Append(@, <<"roam", m>>)]
    IN IF ~Running(W) THEN W
       ELSE IF W.daemon.role = "Authenticator" THEN Raise(W0, "AttributeError")
       ELSE LET W1 == wpaspy_command(W0, <<"SET", "reassoc_same_bss_optim 0">>)
            IN IF W.stations[m].bss = None THEN Raise(W1, "TypeError")
               ELSE wpaspy_command(W1, <<"ROAM", W.stations[m].bss>>)

\* Authenticator.reconnect / Supplicant.reconnect
reconnect(W, m) ==
    LET W0 == [W EXCEPT !.out.ops = Append(@, <<"reconnect", m>>)]
    IN IF ~Running(W) THEN W
       ELSE IF W.daemon.role = "Authenticator"
       THEN wpaspy_command(W0, <<"DISASSOCIATE", get_peermac(W.stations[m])>>)
       ELSE wpaspy_command(wpaspy_command(W0, <<"SET", "reassoc_same_bss_optim 1">>),
                           <<"REASSOCIATE", "">>)

\* Authenticator.get_tk / Supplicant.get_tk: the key, None when the
\* supplicant answers "none" (an exception)
get_tk(W, m) ==
    LET Reply(W1) ==
            IF ~Running(W1) THEN [W |-> W1, tk |-> None]
            ELSE IF W.daemon.role = "Supplicant" /\ W.inp.tkNone
            THEN [W |-> Raise(W1, "Exception"), tk |-> None]
            ELSE [W |-> W1, tk |-> IF W.daemon.cipher = "ccmp" THEN "tk16" ELSE "tk13"]
    IN Reply(IF W.daemon.role = "Authenticator"
             THEN wpaspy_command(W, <<"GET_TK", get_peermac(W.stations[m])>>)
             ELSE wpaspy_command(W, <<"GET", "tk">>))

\* Daemon.get_gtk
get_gtk(W) ==
    LET W1 == wpaspy_command(W, <<"GET_GTK", "">>)
    IN [W |-> W1,
        gtk |-> IF W.daemon.cipher = "ccmp" THEN "gtk16" ELSE "gtk13",
        idx |-> 1]

\* --------------------------------------------------- Station.perform_actions

\* what perform_actions can change or emit, for the record of a dispatch
Snap(W, m) ==
    [actions |-> W.test.actions, generated |-> W.test.generated,
     pn |-> W.stations[m].pn, seqnum |-> W.stations[m].seqnum,
     waiting_on_ip |-> W.stations[m].waiting_on_ip,
     obtained_ip |-> W.stations[m].obtained_ip,
     tk |-> W.stations[m].tk, gtk |-> W.stations[m].gtk, gtk_idx |-> W.stations[m].gtk_idx,
     nsent |-> Len(W.out.sent), ncmds |-> Len(W.out.cmds), nops |-> Len(W.out.ops)]

\* the Inject branch without its assertion
InjectNoAssert(W, m, act, L) ==
    LET Sent(W2) == [W |-> W2, L |-> IF Running(W2) THEN [L EXCEPT !.frame = act.frame] ELSE L]
        Encrypted(E) ==
            Sent(inject_mon(E.W, act.frame, E.cipher, E.key, E.pn, E.keyid, "inject"))
        Slept(W1) ==
            IF act.encrypted
            THEN Encrypted(encrypt(W1, m, act.frame, act.inc_pn, act.key))
            ELSE Sent(inject_mon(W1, act.frame, "plain", None, NoneInt, NoneInt, "inject"))
    IN Slept(IF act.delay # NoneInt /\ act.delay > 0
             THEN Elapse(W, act.delay * TicksPerSecond) ELSE W)

\* the Inject branch transmitting the frame as it is when a key is absent
InjectFallback(W, m, act, L) ==
    LET Sent(W2) == [W |-> W2, L |-> IF Running(W2) THEN [L EXCEPT !.frame = act.frame] ELSE L]
        Encrypted(E) ==
            Sent(inject_mon(E.W, act.frame, E.cipher, E.key, E.pn, E.keyid, "inject"))
        Slept(W1) ==
            IF act.encrypted /\ W1.stations[m].tk # None /\ W1.stations[m].gtk # None
            THEN Encrypted(encrypt(W1, m, act.frame, act.inc_pn, act.key))
            ELSE Sent(inject_mon(W1, act.frame, "plain", None, NoneInt, NoneInt, "inject"))
    IN Slept(IF act.delay # NoneInt /\ act.delay > 0
             THEN Elapse(W, act.delay * TicksPerSecond) ELSE W)

\* the Inject branch of perform_actions
InjectAction(W, m, act, L) ==
    LET Sent(W2) == [W |-> W2, L |-> IF Running(W2) THEN [L EXCEPT !.frame = act.frame] ELSE L]
        Encrypted(E) ==
            Sent(inject_mon(E.W, act.frame, E.cipher, E.key, E.pn, E.keyid, "inject"))
        Slept(W1) ==
            IF act.encrypted
            THEN IF ~(W1.stations[m].tk # None /\ W1.stations[m].gtk # None)
                 THEN [W |-> Raise(W1, "AssertionError"), L |-> L]
                 ELSE Encrypted(encrypt(W1, m, act.frame, act.inc_pn, act.key))
            ELSE Sent(inject_mon(W1, act.frame, "plain", None, NoneInt, NoneInt, "inject"))
    IN Slept(IF act.delay # NoneInt /\ act.delay > 0
             THEN Elapse(W, act.delay * TicksPerSecond) ELSE W)

\* the branches of the loop body other than GetIp-without-IP
ExecAction(W, m, act, L) ==
    CASE act.action = Func -> [W |-> W, L |-> [L EXCEPT !.result = FuncResult(act.func)]]
      [] act.action = Rekey -> [W |-> rekey(W, m), L |-> L]
      [] act.action = Roam -> [W |-> roam(W, m), L |-> L]
      [] act.action = Reconnect -> [W |-> reconnect(W, m), L |-> L]
      [] act.action = Inject -> InjectAction(W, m, act, L)
      [] OTHER -> [W |-> W, L |-> L]

\* what the record of a dispatch keeps of an executed action
Brief(act) ==
    [id |-> act.id, trigger |-> act.trigger, action |-> act.action, wait |-> act.wait,
     func |-> act.func, encrypted |-> act.encrypted, inc_pn |-> act.inc_pn, key |-> act.key, frame |-> act.frame]

\* the while loop without "if act.wait: break"
RECURSIVE ActionLoopNoWait(_, _, _, _)
ActionLoopNoWait(W, m, trigger, L) ==
    LET Ran(act) == [L EXCEPT !.executed = Append(@, Brief(act))]
        Again(R) ==
            IF ~Running(R.W) THEN R
            ELSE ActionLoopNoWait(R.W, m, trigger, R.L)
        Body(N) ==
            IF ~Running(N.W) THEN [W |-> N.W, L |-> L]
            ELSE IF N.act.action = GetIp /\ ~N.W.stations[m].obtained_ip
            THEN [W |-> get_ip([N.W EXCEPT !.stations[m].waiting_on_ip = TRUE], m),
                  L |-> Ran(N.act)]
            ELSE Again(ExecAction(N.W, m, N.act, Ran(N.act)))
    IN IF ~Running(W) \/ ~next_trigger_is(W, trigger) THEN [W |-> W, L |-> L]
       ELSE Body(next_action(W, m))

\* the while loop of perform_actions; L holds its locals (frame, result)
\* and the actions executed so far
RECURSIVE ActionLoop(_, _, _, _)
ActionLoop(W, m, trigger, L) ==
    LET Ran(act) == [L EXCEPT !.executed = Append(@, Brief(act))]
        Again(R, act) ==
            IF act.wait \/ ~Running(R.W) THEN R
            ELSE ActionLoop(R.W, m, trigger, R.L)
        Body(N) ==
            IF ~Running(N.W) THEN [W |-> N.W, L |-> L]
            ELSE IF N.act.action = GetIp /\ ~N.W.stations[m].obtained_ip
            THEN [W |-> get_ip([N.W EXCEPT !.stations[m].waiting_on_ip = TRUE], m),
                  L |-> Ran(N.act)]
            ELSE Again(ExecAction(N.W, m, N.act, Ran(N.act)), N.act)
    IN IF ~Running(W) \/ ~next_trigger_is(W, trigger) THEN [W |-> W, L |-> L]
       ELSE Body(next_action(W, m))

\* the dummy frame of the ath9k_htc workaround
DummyFrame == [SC |-> 0, MF |-> FALSE, mcast |-> TRUE, kind |-> "dummy", part |-> 0]

\* perform_actions injecting the dummy frame after any injected frame,
\* whatever its more-fragments flag
perform_actions_any_frame(W, m, trigger) ==
    LET L0 == [frame |-> NoFrame, result |-> None, executed |-> << >>]
        active == W.stations[m].test
        Recorded(W1, L) ==
            [W |-> [W1 EXCEPT !.out.calls = Append(@,
                      [sta |-> m, trigger |-> trigger, active |-> active,
                       match |-> active /\ next_trigger_is(W, trigger),
                       pre |-> Snap(W, m), post |-> Snap(W1, m),
                       executed |-> L.executed, result |-> L.result,
                       returned |-> Running(W1)])],
             result |-> L.result]
        Workaround(R) ==
            Recorded(IF Running(R.W) /\ active /\ W.daemon.inject_workaround
                        /\ R.L.frame # NoFrame
                     THEN inject_mon(R.W, DummyFrame, "plain", None, NoneInt, NoneInt,
                                     "workaround")
                     ELSE R.W,
                     R.L)
    IN IF ~Running(W) THEN [W |-> W, result |-> None]
       ELSE Workaround(IF active THEN ActionLoop(W, m, trigger, L0) ELSE [W |-> W, L |-> L0])

\* Station.perform_actions: returns the world and the result.  The dispatch
\* is recorded in out.calls.
perform_actions(W, m, trigger) ==
    LET L0 == [frame |-> NoFrame, result |-> None, executed |-> << >>]
        active == W.stations[m].test
        Recorded(W1, L) ==
            [W |-> [W1 EXCEPT !.out.calls = Append(@,
                      [sta |-> m, trigger |-> trigger, active |-> active,
                       match |-> active /\ next_trigger_is(W, trigger),
                       pre |-> Snap(W, m), post |-> Snap(W1, m),
                       executed |-> L.executed, result |-> L.result,
                       returned |-> Running(W1)])],
             result |-> L.result]
        Workaround(R) ==
            Recorded(IF Running(R.W) /\ active /\ W.daemon.inject_workaround
                        /\ R.L.frame # NoFrame /\ R.L.frame.MF
                     THEN inject_mon(R.W, DummyFrame, "plain", None, NoneInt, NoneInt,
                                     "workaround")
                     ELSE R.W,
                     R.L)
    IN IF ~Running(W) THEN [W |-> W, result |-> None]
       ELSE Workaround(IF active THEN ActionLoop(W, m, trigger, L0) ELSE [W |-> W, L |-> L0])

\* ------------------------------------------------------ Station: the triggers

\* trigger_eapol_events looking at the secure bit first
trigger_eapol_events_secure_first(W, m, eapol) ==
    LET sta == W.stations[m]
        is_msg3_or_4 == BitSet(eapol.key_info, KEY_SECURE)
        Flags(R, fire) ==
            IF ~Running(R.W) THEN [W |-> R.W, result |-> None]
            ELSE [W |-> [R.W EXCEPT
                           !.stations[m].txed_before_auth =
                               IF fire = StartAuth THEN TRUE
                               ELSE IF fire = BeforeAuth THEN FALSE ELSE @,
                           !.stations[m].txed_before_auth_done =
                               IF fire = StartAuth THEN FALSE
                               ELSE IF fire = BeforeAuth THEN TRUE ELSE @,
                           !.stations[m].time_connected = NoneInt],
                  result |-> R.result]
        Branch(fire) ==
            Flags(IF fire = NoneInt THEN [W |-> W, result |-> None]
                  ELSE perform_actions(W, m, fire),
                  fire)
    IN IF eapol.eap THEN [W |-> W, result |-> None]
       ELSE Branch(IF is_msg3_or_4 /\ ~sta.txed_before_auth_done THEN BeforeAuth
                   ELSE IF ~sta.txed_before_auth THEN StartAuth
                   ELSE NoneInt)

\* Station.trigger_eapol_events; eapol is [eap, key_info].  fire is the
\* branch taken: StartAuth, BeforeAuth, or neither (NoneInt).
trigger_eapol_events(W, m, eapol) ==
    LET sta == W.stations[m]
        is_msg3_or_4 == BitSet(eapol.key_info, KEY_SECURE)
        Flags(R, fire) ==
            IF ~Running(R.W) THEN [W |-> R.W, result |-> None]
            ELSE [W |-> [R.W EXCEPT
                           !.stations[m].txed_before_auth =
                               IF fire = StartAuth THEN TRUE
                               ELSE IF fire = BeforeAuth THEN FALSE ELSE @,
                           !.stations[m].txed_before_auth_done =
                               IF fire = StartAuth THEN FALSE
                               ELSE IF fire = BeforeAuth THEN TRUE ELSE @,
                           !.stations[m].time_connected = NoneInt],
                  result |-> R.result]
        Branch(fire) ==
            Flags(IF fire = NoneInt THEN [W |-> W, result |-> None]
                  ELSE perform_actions(W, m, fire),
                  fire)
    IN IF eapol.eap THEN [W |-> W, result |-> None]
       ELSE Branch(IF ~sta.txed_before_auth THEN StartAuth
                   ELSE IF is_msg3_or_4 /\ ~sta.txed_before_auth_done THEN BeforeAuth
                   ELSE NoneInt)

\* handle_eapol_tx forwarding the frame before it dispatches the triggers
handle_eapol_tx_eager(W, m, eapol) ==
    LET Dropped(T) == T.W
    IN Dropped(trigger_eapol_events(
                  send_mon([W EXCEPT !.out.events = Append(@, <<"handle_eapol_tx", m>>)], m,
                           [kind |-> "eapol", ether |-> FALSE, dstmcast |-> FALSE]),
                  m, eapol))

\* Station.handle_eapol_tx
handle_eapol_tx(W, m, eapol) ==
    LET Forward(T) ==
            IF ~Running(T.W) THEN T.W
            ELSE IF T.result = None
            THEN send_mon(T.W, m, [kind |-> "eapol", ether |-> FALSE, dstmcast |-> FALSE])
            ELSE T.W
    IN Forward(trigger_eapol_events([W EXCEPT !.out.events = Append(@, <<"handle_eapol_tx", m>>)],
                                    m, eapol))

\* Station.update_keys
update_keys(W, m) ==
    LET SetGtk(G) ==
            IF ~Running(G.W) THEN G.W
            ELSE [G.W EXCEPT !.stations[m].gtk = G.gtk, !.stations[m].gtk_idx = G.idx]
        SetTk(T) ==
            IF ~Running(T.W) THEN T.W
            ELSE SetGtk(get_gtk([T.W EXCEPT !.stations[m].tk = T.tk]))
    IN SetTk(get_tk(W, m))

\* no Connected dispatch since the authentication completed
NoConn == [timer |-> 0, ip |-> 0]

\* handle_authenticated dispatching AfterAuth before it refreshes the keys
HandleAuthenticatedLate(W, m) ==
    LET Refresh(W2) == IF ~Running(W2) THEN W2 ELSE update_keys(W2, m)
    IN Refresh(perform_actions(
                  [W EXCEPT !.stations[m].time_connected = ConnectedDelay,
                            !.hist.conn[m] = NoConn,
                            !.out.events = Append(@, <<"handle_authenticated", m>>)],
                  m, AfterAuth).W)

\* Station.handle_authenticated.  The history counts the Connected
\* dispatches since the last completed authentication of the station, by
\* what dispatched them (each count up to 2).
handle_authenticated(W, m) ==
    LET Dispatch(W1) ==
            IF ~Running(W1) THEN W1
            ELSE perform_actions([W1 EXCEPT !.stations[m].time_connected = ConnectedDelay,
                                            !.hist.conn[m] = NoConn],
                                 m, AfterAuth).W
    IN Dispatch(update_keys([W EXCEPT !.out.events = Append(@, <<"handle_authenticated", m>>)],
                            m))

\* Station.handle_connected (called by the timer of time_tick only)
handle_connected(W, m) ==
    perform_actions([W EXCEPT !.hist.conn[m].timer = Min(2, @ + 1)], m, Connected).W

\* set_ip_addresses without the dispatch of Connected for a waiting action
set_ip_addresses_quiet(W, m, ip, peerip) ==
    LET W1 == [W EXCEPT !.stations[m].ip = ip, !.stations[m].peerip = peerip,
                        !.stations[m].obtained_ip = TRUE]
    IN IF ~Running(W) THEN W
       ELSE IF W1.stations[m].waiting_on_ip
       THEN [W1 EXCEPT !.stations[m].waiting_on_ip = FALSE]
       ELSE W1

\* set_ip_addresses leaving the station waiting
set_ip_addresses_still_waiting(W, m, ip, peerip) ==
    LET W1 == [W EXCEPT !.stations[m].ip = ip, !.stations[m].peerip = peerip,
                        !.stations[m].obtained_ip = TRUE]
    IN IF ~Running(W) THEN W
       ELSE IF W1.stations[m].waiting_on_ip
       THEN perform_actions([W1 EXCEPT !.hist.conn[m].ip = Min(2, @ + 1)],
                            m, Connected).W
       ELSE W1

\* Station.set_ip_addresses
set_ip_addresses(W, m, ip, peerip) ==
    LET W1 == [W EXCEPT !.stations[m].ip = ip, !.stations[m].peerip = peerip,
                        !.stations[m].obtained_ip = TRUE]
    IN IF ~Running(W) THEN W
       ELSE IF W1.stations[m].waiting_on_ip
       THEN perform_actions([W1 EXCEPT !.stations[m].waiting_on_ip = FALSE,
                                       !.hist.conn[m].ip = Min(2, @ + 1)],
                            m, Connected).W
       ELSE W1

\* time_tick clearing the wake-up after the Connected dispatch returned
Station_time_tick_late(W, m) ==
    LET Cleared(W1) ==
            IF ~Running(W1) THEN W1 ELSE [W1 EXCEPT !.stations[m].time_connected = NoneInt]
    IN IF ~Running(W) THEN W
       ELSE IF W.stations[m].time_connected # NoneInt /\ W.stations[m].time_connected = 0
       THEN Cleared(handle_connected(W, m))
       ELSE W

\* time_tick clearing a due wake-up without dispatching Connected
Station_time_tick_drop(W, m) ==
    IF ~Running(W) THEN W
    ELSE IF W.stations[m].time_connected # NoneInt /\ W.stations[m].time_connected = 0
    THEN [W EXCEPT !.stations[m].time_connected = NoneInt]
    ELSE W

\* Station.time_tick
Station_time_tick(W, m) ==
    IF ~Running(W) THEN W
    ELSE IF W.stations[m].time_connected # NoneInt /\ W.stations[m].time_connected = 0
    THEN handle_connected([W EXCEPT !.stations[m].time_connected = NoneInt], m)
    ELSE W

\* Station.handle_eth; p is [src, kind], kind "match" a frame the check of
\* the generated test accepts
Station_handle_eth(W, m, p) ==
    IF ~Running(W) THEN W
    ELSE IF W.stations[m].test /\ W.test.check_fn /\ p.kind = "match"
    THEN [W EXCEPT !.stations[m].test = FALSE, !.hist.success = TRUE]
    ELSE W

\* -------------------------------------------------------------- Authenticator

\* add_station making a new Station for every connection
add_station_fresh(W, clientmac) ==
    LET station == Station(TRUE, "apmac", "from-DS")
        W1 == [W EXCEPT !.stations = [k \in DOMAIN W.stations \cup {clientmac} |->
                                        IF k = clientmac THEN station ELSE W.stations[k]],
                        !.daemon.order = Append(@, clientmac)]
    IN IF W.daemon.ip
       THEN set_ip_addresses(W1, clientmac, "ip", "peerip")
       ELSE W1

\* Authenticator.add_station
add_station(W, clientmac) ==
    IF clientmac \in DOMAIN W.stations THEN W
    ELSE LET station == Station(TRUE, "apmac", "from-DS")
             W1 == [W EXCEPT !.stations = [k \in DOMAIN W.stations \cup {clientmac} |->
                                             IF k = clientmac THEN station ELSE W.stations[k]],
                             !.daemon.order = Append(@, clientmac)]
         IN IF W.daemon.ip
            THEN set_ip_addresses(W1, clientmac, "ip", "peerip")
            ELSE W1

\* Authenticator.handle_wpaspy; msg is [type, mac, eap, key_info]
Authenticator_handle_wpaspy(W, msg) ==
    CASE msg.type = "AP-STA-CONNECTING" ->
            set_peermac(handle_connecting(add_station(W, msg.mac), msg.mac, "apmac"),
                        msg.mac, msg.mac)
      [] msg.type = "EAPOL-TX" ->
            IF msg.mac \notin DOMAIN W.stations THEN W
            ELSE handle_eapol_tx(W, msg.mac, [eap |-> msg.eap, key_info |-> msg.key_info])
      [] msg.type = "AP-STA-CONNECTED" ->
            IF msg.mac \notin DOMAIN W.stations THEN W
            ELSE handle_authenticated(W, msg.mac)
      [] OTHER -> W

\* Authenticator.handle_eth_dhcp; a frame of kind "dhcp_request" is a DHCP
\* request (message type 3) of a client that holds a lease
Authenticator_handle_eth_dhcp(W, p, m) ==
    IF p.kind # "dhcp_request" THEN W
    ELSE set_ip_addresses(W, m, "arp_sender_ip", "lease")

\* Authenticator.handle_eth
Authenticator_handle_eth(W, p) ==
    IF p.src \notin DOMAIN W.stations THEN W
    ELSE IF ~W.stations[p.src].obtained_ip
    THEN Authenticator_handle_eth_dhcp(W, p, p.src)
    ELSE Station_handle_eth(W, p.src, p)

\* Authenticator.time_tick: the stations in the order of the dictionary
RECURSIVE Authenticator_time_tick(_, _)
Authenticator_time_tick(W, i) ==
    IF i > Len(W.daemon.order) THEN W
    ELSE Authenticator_time_tick(Station_time_tick(W, W.daemon.order[i]), i + 1)

\* ----------------------------------------------------------------- Supplicant

\* Supplicant.handle_eth_dhcp
Supplicant_handle_eth_dhcp(W, p) ==
    LET Offered(W1) ==
            IF Running(W1) THEN [W1 EXCEPT !.daemon.dhcp_offer_frame = TRUE] ELSE W1
    IN CASE p.kind = "dhcp_offer" -> Offered(send_dhcp_request(W))
         [] p.kind = "dhcp_ack" ->
               set_ip_addresses(
                   set_peermac([W EXCEPT !.daemon.time_retrans_dhcp = NoneInt], "sta", "router"),
                   "sta", "clientip", "serverip")
         [] OTHER -> W

\* Supplicant.handle_eth; the frames of kind dhcp_* carry the transaction id
\* of the discover that was sent
Supplicant_handle_eth(W, p) ==
    IF p.kind \in {"dhcp_offer", "dhcp_ack", "dhcp_other"} /\ W.daemon.dhcp_xid # None
    THEN Supplicant_handle_eth_dhcp(W, p)
    ELSE Station_handle_eth(W, "sta", p)

\* Supplicant.handle_wpaspy
Supplicant_handle_wpaspy(W, msg) ==
    CASE msg.type = "WPA: Key negotiation completed with" -> handle_authenticated(W, "sta")
      [] msg.type = "Trying to authenticate with" -> handle_connecting(W, "sta", "bss")
      [] msg.type = "EAPOL-TX" ->
            handle_eapol_tx(W, "sta", [eap |-> msg.eap, key_info |-> msg.key_info])
      [] msg.type = "WPA: EAPOL processing complete" -> handle_authenticated(W, "sta")
      [] OTHER -> W

\* Supplicant.time_tick without the retransmission
Supplicant_time_tick_once(W) ==
    Station_time_tick(W, "sta")

\* Supplicant.time_tick
Supplicant_time_tick(W) ==
    LET W1 == IF W.daemon.time_retrans_dhcp # NoneInt /\ W.daemon.time_retrans_dhcp = 0
              THEN get_ip(W, "sta") ELSE W
    IN Station_time_tick(W1, "sta")

\* ------------------------------------------------------------------- Daemon

\* the time_tick of the daemon's role
time_tick(W) ==
    IF ~Running(W) THEN W
    ELSE IF W.daemon.role = "Authenticator" THEN Authenticator_time_tick(W, 1)
    ELSE Supplicant_time_tick(W)

\* the handle_wpaspy of the daemon's role
handle_wpaspy(W, msg) ==
    IF W.daemon.role = "Authenticator" THEN Authenticator_handle_wpaspy(W, msg)
    ELSE Supplicant_handle_wpaspy(W, msg)

\* the handle_eth of the daemon's role
handle_eth(W, p) ==
    IF W.daemon.role = "Authenticator" THEN Authenticator_handle_eth(W, p)
    ELSE Supplicant_handle_eth(W, p)

\* ------------------------------------------------------------ prepare_tests

\* char2trigger
char2trigger(c) ==
    CASE c = "S" -> StartAuth
      [] c = "B" -> BeforeAuth
      [] c = "A" -> AfterAuth
      [] OTHER -> Connected

\* stract2action; stract is the sequence of the characters of one action
stract2action(id, stract) ==
    LET trigger == IF Len(stract) = 1 THEN Connected ELSE char2trigger(stract[1])
        c == IF Len(stract) = 1 THEN stract[1] ELSE stract[2]
    IN CASE c = "I" -> Action(id, trigger, GetIp, None, FALSE, NoneInt)
         [] c = "R" -> Action(id, trigger, Rekey, None, FALSE, NoneInt)
         [] c = "P" -> Action(id, trigger, Inject, None, FALSE, NoneInt)
         [] OTHER -> Action(id, trigger, Inject, None, TRUE, NoneInt)

\* the scenario "custom" stands for a test built in code (as tests_qca
\* does) from a callback, explicit wait values, a roam and a key override
CustomActions ==
    << Action(1, StartAuth, Inject, "ret_drop", FALSE, NoneInt),
       Action(2, BeforeAuth, Inject, None, FALSE, 1),
       Action(3, BeforeAuth, Inject, "ret_none", FALSE, NoneInt),
       Action(4, AfterAuth, Roam, None, FALSE, NoneInt),
       [Action(5, AfterAuth, Inject, None, TRUE, NoneInt) EXCEPT !.key = 0] >>

\* prepare_tests; stractions is << >> when no action string is given
prepare_tests(test_name, stractions, delay, inc_pn, as_msdu) ==
    LET parsed == [i \in 1..Len(stractions) |-> stract2action(i, stractions[i])]
        plain == [i \in 1..Len(stractions) |->
                    Action(i, char2trigger(stractions[i]), Inject, None, FALSE, NoneInt)]
        two_start == << Action(1, StartAuth, Inject, None, FALSE, NoneInt),
                        Action(2, StartAuth, Inject, None, FALSE, NoneInt) >>
        test ==
          CASE test_name = "ping" ->
                 Test("PingTest",
                      IF stractions # << >> THEN parsed
                      ELSE << Action(1, Connected, GetIp, None, FALSE, NoneInt),
                              Action(2, Connected, Inject, None, TRUE, NoneInt) >>,
                      REQ_ICMP, FALSE, FALSE, as_msdu)
            [] test_name = "ping_frag_sep" ->
                 Test("PingTest",
                      << Action(1, Connected, GetIp, None, FALSE, NoneInt),
                         Action(2, Connected, Inject, None, TRUE, NoneInt),
                         Action(3, Connected, Inject, None, TRUE, NoneInt) >>,
                      REQ_ICMP, FALSE, TRUE, as_msdu)
            [] test_name = "wep_mixed_key" ->
                 Test("PingTest",
                      << Action(1, Connected, GetIp, None, FALSE, NoneInt),
                         Action(2, Connected, Inject, None, TRUE, NoneInt),
                         Action(3, AfterAuth, Inject, None, TRUE, NoneInt) >>,
                      REQ_ICMP, FALSE, FALSE, FALSE)
            [] test_name = "cache_poison" ->
                 Test("PingTest",
                      << Action(1, Connected, Inject, None, TRUE, NoneInt),
                         Action(2, Connected, Reconnect, None, FALSE, NoneInt),
                         Action(3, AfterAuth, Inject, None, TRUE, NoneInt) >>,
                      REQ_ICMP, FALSE, FALSE, FALSE)
            [] test_name = "eapol_msdu" ->
                 Test("EapolMsduTest", IF stractions # << >> THEN plain ELSE two_start,
                      REQ_ICMP, FALSE, FALSE, FALSE)
            [] test_name = "linux_plain" ->
                 Test("LinuxTest",
                      << Action(1, Connected, Inject, None, TRUE, NoneInt),
                         Action(2, Connected, Inject, None, TRUE, NoneInt),
                         Action(3, Connected, Inject, None, FALSE, NoneInt) >>,
                      REQ_ICMP, FALSE, FALSE, FALSE)
            [] test_name = "macos" ->
                 Test("MacOsTest", IF stractions # << >> THEN plain ELSE two_start,
                      REQ_ICMP, FALSE, FALSE, FALSE)
            [] test_name = "ping_bcast" ->
                 Test("PingTest",
                      << Action(1, Connected, Inject, None, TRUE, NoneInt) >>,
                      REQ_DHCP, TRUE, FALSE, FALSE)
            [] OTHER ->
                 Test("PingTest", CustomActions, REQ_ICMP, FALSE, FALSE, FALSE)
    IN set_options(test, delay, inc_pn)

\* ---------------------------------------------------------------- the state

VARIABLES
    test,       \* options.test, the Test object all stations refer to
    stations,   \* Authenticator.stations / Supplicant.station, by MAC
    daemon,     \* the Daemon object and the options
    out,        \* what the last loop iteration emitted and dispatched
    proc,       \* "running", "quit" (quit(1)) or "aborted" (exception)
    hist        \* history: consumed actions, generation runs, attempts,
                \* Connected dispatches

vars == <<test, stations, daemon, out, proc, hist>>

AllMacs == {"c1", "c2", "sta"}

EmptyOut == [sent |-> << >>, cmds |-> << >>, ops |-> << >>, calls |-> << >>,
             encs |-> << >>, events |-> << >>, error |-> None, fail |-> NoFail]

\* an attempt of which no frame was seen
\* (frames: a frame of the attempt was seen; sec: one with the secure bit;
\* sa, ba: the StartAuth and BeforeAuth dispatches of the attempt, counted
\* up to 2; baNonSec: BeforeAuth was dispatched on a frame without the bit)
NoAttempt == [open |-> FALSE, frames |-> FALSE, sa |-> 0, sec |-> FALSE, ba |-> 0,
              baNonSec |-> FALSE]

\* the configurations of a run: role, clients in range, scenario, action
\* string, static IP addresses, the ath9k_htc workaround, --delay, --inc_pn,
\* the cipher of the network, --msdu
Cfg(role, macs, name, stractions, ip, workaround, delay, inc_pn, cipher, as_msdu) ==
    [role |-> role, macs |-> macs, name |-> name, stractions |-> stractions, ip |-> ip,
     workaround |-> workaround, delay |-> delay, inc_pn |-> inc_pn, cipher |-> cipher,
     as_msdu |-> as_msdu]

Configs ==
    { Cfg("Supplicant", {"sta"}, "ping", << <<"C", "P">> >>, FALSE, FALSE, 0, 1, "ccmp", FALSE),
      Cfg("Authenticator", {"c1"}, "ping",
          << <<"B", "P">>, <<"A", "E">>, <<"A", "R">>, <<"A", "E">>, <<"A", "E">> >>,
          TRUE, TRUE, 0, 2, "ccmp", FALSE),
      Cfg("Supplicant", {"sta"}, "linux_plain", << >>, TRUE, TRUE, 1, 0, "ccmp", FALSE),
      Cfg("Authenticator", {"c1"}, "ping_frag_sep", << >>, FALSE, TRUE, 1, 1, "ccmp", TRUE),
      Cfg("Supplicant", {"sta"}, "macos", << >>, FALSE, TRUE, 0, 1, "ccmp", FALSE),
      Cfg("Authenticator", {"c1"}, "ping", << <<"S", "E">> >>, TRUE, FALSE, 0, 1, "ccmp", FALSE),
      Cfg("Supplicant", {"sta"}, "wep_mixed_key", << >>, TRUE, FALSE, 0, 1, "wep", FALSE),
      Cfg("Authenticator", {"c1"}, "ping_bcast", << >>, TRUE, FALSE, 0, 1, "ccmp", FALSE),
      Cfg("Supplicant", {"sta"}, "custom", << >>, TRUE, TRUE, 0, 1, "ccmp", FALSE) }

\* the state Daemon.run enters its loop with, for the test object testobj
InitWith(cfg, testobj) ==
    LET sta0 == Station(TRUE, "clientmac", "to-DS")
        sta == IF cfg.ip
               THEN [sta0 EXCEPT !.ip = "ip", !.peerip = "peerip", !.obtained_ip = TRUE]
               ELSE sta0
        Start(t) ==
            /\ test = t
            /\ stations = IF cfg.role = "Supplicant" THEN [m \in {"sta"} |-> sta]
                          ELSE [m \in {} |-> sta0]
            /\ daemon = [role |-> cfg.role, macs |-> cfg.macs, cipher |-> cfg.cipher,
                         inject_workaround |-> cfg.workaround, ip |-> cfg.ip,
                         order |-> IF cfg.role = "Supplicant" THEN <<"sta">> ELSE << >>,
                         dhcp_xid |-> None, dhcp_offer_frame |-> FALSE,
                         time_retrans_dhcp |-> NoneInt]
            /\ out = EmptyOut
            /\ proc = "running"
            /\ hist = [popped |-> << >>, order |-> Ids(t.actions), initial |-> Ids(t.actions),
                       injects |-> {t.actions[i].id : i \in {j \in 1..Len(t.actions) :
                                                               t.actions[j].action = Inject}},
                       genCount |-> 0, genBy |-> None, success |-> FALSE,
                       prepared |-> << >>, enforced |-> << >>,
                       maxpn |-> [m \in AllMacs |-> 0],
                       att |-> [m \in AllMacs |-> NoAttempt],
                       conn |-> [m \in AllMacs |-> NoConn],
                       last |-> [m \in AllMacs |-> NoneInt],
                       cancelled |-> [m \in AllMacs |-> FALSE],
                       built |-> << >>, by |-> << >>]
    IN Start(testobj)

\* the state Daemon.run enters its loop with, for the test of the command line
InitFor(cfg) ==
    InitWith(cfg, prepare_tests(cfg.name, cfg.stractions, cfg.delay, cfg.inc_pn, cfg.as_msdu))

Init == \E cfg \in Configs : InitFor(cfg)

\* runs in which the IP addresses are obtained with DHCP, next to one with
\* static addresses: the default ping test as client, a GetIp action under
\* AfterAuth as access point, the default ping test with static addresses
DhcpConfigs ==
    { Cfg("Supplicant", {"sta"}, "ping", << >>, FALSE, FALSE, 0, 1, "ccmp", FALSE),
      Cfg("Authenticator", {"c1"}, "ping", << <<"A", "I">>, <<"A", "E">> >>,
          FALSE, FALSE, 0, 1, "ccmp", FALSE),
      Cfg("Authenticator", {"c1"}, "ping", << >>, TRUE, FALSE, 0, 1, "ccmp", FALSE) }

InitDhcp == \E cfg \in DhcpConfigs : InitFor(cfg)

\* runs of the tests that rekey, reconnect and roam, in both roles
OpsConfigs ==
    { Cfg("Authenticator", {"c1"}, "custom", << >>, TRUE, FALSE, 0, 1, "ccmp", FALSE),
      Cfg("Supplicant", {"sta"}, "custom", << >>, TRUE, FALSE, 0, 1, "ccmp", FALSE),
      Cfg("Authenticator", {"c1"}, "cache_poison", << >>, TRUE, FALSE, 0, 1, "ccmp", FALSE),
      Cfg("Supplicant", {"sta"}, "cache_poison", << >>, TRUE, FALSE, 0, 1, "ccmp", FALSE),
      Cfg("Authenticator", {"c1"}, "ping", << <<"A", "R">>, <<"A", "E">> >>,
          TRUE, FALSE, 0, 1, "ccmp", FALSE),
      Cfg("Supplicant", {"sta"}, "ping", << <<"A", "R">>, <<"A", "E">> >>,
          TRUE, FALSE, 0, 1, "ccmp", FALSE) }

InitOps == \E cfg \in OpsConfigs : InitFor(cfg)

\* an access point with two clients in range
MultiConfigs ==
    { Cfg("Authenticator", {"c1", "c2"}, "cache_poison", << >>, TRUE, FALSE, 0, 1, "ccmp", FALSE) }

InitMulti == \E cfg \in MultiConfigs : InitFor(cfg)

\* the world at the start of a loop iteration, dt units of time after the
\* previous one
World(inp, dt) ==
    Elapse([test |-> test, stations |-> stations, daemon |-> daemon, out |-> EmptyOut,
            proc |-> proc, hist |-> hist, inp |-> inp], dt)

\* the counters stay within the bounds of the model
RECURSIVE SumOver(_, _)
SumOver(f, S) ==
    IF S = {} THEN 0
    ELSE LET x == CHOOSE x \in S : TRUE IN f[x] + SumOver(f, S \ {x})

WithinBounds(W) ==
    /\ SumOver([m \in DOMAIN W.stations |-> W.stations[m].seqnum - SeqInit],
               DOMAIN W.stations) <= MaxHeaders
    /\ SumOver([m \in DOMAIN W.stations |-> W.stations[m].pn - PnInit],
               DOMAIN W.stations) <= MaxPnInc

Commit(W) ==
    /\ WithinBounds(W)
    /\ test' = W.test
    /\ stations' = W.stations
    /\ daemon' = W.daemon
    /\ out' = W.out
    /\ proc' = W.proc
    /\ hist' = W.hist

\* the replies of the control channel in one iteration: command number
\* failAt (0: none) is answered failKind; "GET tk" is answered "none"
Inp(failAt, failKind, tkNone) == [failAt |-> failAt, failKind |-> failKind, tkNone |-> tkNone]
FailKinds(failAt) == IF failAt = 0 THEN {None} ELSE {"FAIL", "UNKNOWN COMMAND"}

\* whether the dispatch of a trigger by station m is among the calls
Fired(W, m, trigger) ==
    \E i \in 1..Len(W.out.calls) : W.out.calls[i].sta = m /\ W.out.calls[i].trigger = trigger

Bump(n, b) == IF b THEN Min(2, n + 1) ELSE n

\* the history of authentication attempts after station m handled a
\* non-EAP EAPOL frame
AttemptAfterFrame(W, m, secure) ==
    LET old == W.hist.att[m]
        base == IF ~old.open THEN [NoAttempt EXCEPT !.open = TRUE] ELSE old
        sa == Fired(W, m, StartAuth)
        ba == Fired(W, m, BeforeAuth)
    IN [open |-> TRUE,
        frames |-> TRUE,
        sa |-> Bump(base.sa, sa),
        sec |-> base.sec \/ secure,
        ba |-> Bump(base.ba, ba),
        baNonSec |-> base.baNonSec \/ (ba /\ ~secure)]

\* the trigger of the handshake that station m dispatched last: the one of
\* this iteration, or else the one on record
LastFired(W, m) ==
    IF Fired(W, m, StartAuth) THEN StartAuth
    ELSE IF Fired(W, m, BeforeAuth) THEN BeforeAuth
    ELSE W.hist.last[m]

\* the messages of the control channel that the role can receive
CtrlMsgs ==
    LET macs == daemon.macs
        types == IF daemon.role = "Authenticator"
                 THEN {"AP-STA-CONNECTING", "AP-STA-CONNECTED", "OTHER"}
                 ELSE {"WPA: Key negotiation completed with", "Trying to authenticate with",
                       "WPA: EAPOL processing complete", "OTHER"}
    IN [type : types, mac : macs, eap : {FALSE}, key_info : {0}]
       \cup [type : {"EAPOL-TX"}, mac : macs, eap : {FALSE}, key_info : {138, 5066}]
       \cup [type : {"EAPOL-TX"}, mac : macs, eap : {TRUE}, key_info : {0}]

Completion(msg) ==
    msg.type \in {"AP-STA-CONNECTED", "WPA: Key negotiation completed with",
                  "WPA: EAPOL processing complete"}

\* the history of attempts after the handler of a message: a frame of a
\* handshake belongs to the open attempt or opens one; the completion of
\* the authentication and a new connection close it
HistAfter(W, msg) ==
    LET m == msg.mac
    IN IF m \notin DOMAIN W.stations THEN W
       ELSE IF msg.type = "EAPOL-TX"
       THEN IF m \notin DOMAIN stations THEN W
            ELSE IF msg.eap
            THEN [W EXCEPT !.out.events = Append(@, <<"EAP in eapol", m>>),
                           !.hist.last[m] = LastFired(W, m)]
            ELSE [W EXCEPT !.hist.att[m] =
                               AttemptAfterFrame(W, m, BitSet(msg.key_info, KEY_SECURE)),
                           !.hist.last[m] = LastFired(W, m),
                           !.hist.cancelled[m] =
                               @ \/ (stations[m].time_connected # NoneInt
                                       /\ W.stations[m].time_connected = NoneInt)]
       ELSE IF msg.type \in {"AP-STA-CONNECTING", "Trying to authenticate with"}
       THEN [W EXCEPT !.hist.att[m] = NoAttempt]
       ELSE IF Completion(msg) /\ m \in DOMAIN stations
       THEN [W EXCEPT !.hist.att[m] = NoAttempt, !.hist.cancelled[m] = FALSE]
       ELSE W

\* handle_wpaspy, then time_tick
RunCtrl(msg, dt, inp) ==
    time_tick(HistAfter(handle_wpaspy(World(inp, dt), msg), msg))

\* the iteration of Daemon.run for one of the messages msgs
CtrlStep(msgs) ==
    \E msg \in msgs, dt \in 0..1 :
       \E tkNone \in IF Completion(msg) /\ daemon.role = "Supplicant" THEN BOOLEAN ELSE {FALSE} :
       \E failAt \in 0..Len(RunCtrl(msg, dt, Inp(0, None, tkNone)).out.cmds) :
       \E failKind \in FailKinds(failAt) :
          Commit(RunCtrl(msg, dt, Inp(failAt, failKind, tkNone)))

\* One iteration of Daemon.run in which the control channel is readable.
RecvCtrl ==
    /\ proc = "running"
    /\ CtrlStep(CtrlMsgs)

\* The messages of a network with a pre-shared key whose handshakes are not
\* disturbed: a station connects, message 1 and message 3 (or 2 and 4) of
\* the 4-way handshake are sent, and the completion is reported.
InOrder(msg) ==
    LET m == msg.mac
        known == m \in DOMAIN stations
    IN CASE msg.type = "EAPOL-TX" ->
              /\ known /\ ~msg.eap
              /\ IF BitSet(msg.key_info, KEY_SECURE)
                 THEN hist.att[m].frames /\ ~hist.att[m].sec
                 ELSE stations[m].tk = None /\ ~hist.att[m].frames
         [] Completion(msg) -> known /\ hist.att[m].sec
         [] OTHER -> TRUE

RecvCtrlInOrder ==
    /\ proc = "running"
    /\ CtrlStep({msg \in CtrlMsgs : InOrder(msg)})

\* handle_eth, then time_tick
RunEth(p, dt, inp) == time_tick(handle_eth(World(inp, dt), p))

EthKinds ==
    IF daemon.role = "Authenticator" THEN {"dhcp_request", "match", "other"}
    ELSE {"dhcp_offer", "dhcp_ack", "match", "other"}

\* One iteration in which the Ethernet socket is readable.
RecvEth ==
    /\ proc = "running"
    /\ \E src \in daemon.macs, kind \in EthKinds, dt \in 0..1 :
       \E failAt \in 0..Len(RunEth([src |-> src, kind |-> kind], dt, Inp(0, None, FALSE)).out.cmds) :
       \E failKind \in FailKinds(failAt) :
          Commit(RunEth([src |-> src, kind |-> kind], dt, Inp(failAt, failKind, FALSE)))

\* One iteration in which the monitor socket is readable: handle_mon does
\* nothing; then time_tick.
RecvMon ==
    /\ proc = "running"
    /\ \E dt \in 0..1 :
       \E failAt \in 0..Len(time_tick(World(Inp(0, None, FALSE), dt)).out.cmds) :
       \E failKind \in FailKinds(failAt) :
          Commit(time_tick(World(Inp(failAt, failKind, FALSE), dt)))

\* One iteration in which select times out after half a second: time_tick.
Timeout ==
    /\ proc = "running"
    /\ \E failAt \in 0..Len(time_tick(World(Inp(0, None, FALSE), 1)).out.cmds) :
       \E failKind \in FailKinds(failAt) :
       \E W \in {time_tick(World(Inp(failAt, failKind, FALSE), 1))} :
          Commit(W)

Next == RecvCtrl \/ RecvEth \/ RecvMon \/ Timeout

Spec == Init /\ [][Next]_vars

NextMulti == RecvCtrlInOrder \/ RecvEth \/ RecvMon \/ Timeout

SpecMulti == InitMulti /\ [][NextMulti]_vars

SpecDhcp == InitDhcp /\ [][NextMulti]_vars

SpecOps == InitOps /\ [][Next]_vars

\* A test built in code: the queue starts empty and the first action is
\* constructed from any trigger, kind, callback, encryption flag and wait
\* value.  The history keeps the arguments of the constructor.
InitAction ==
    \E cfg \in {Cfg("Supplicant", {"sta"}, "custom", << >>, TRUE, FALSE, 0, 1, "ccmp", FALSE)} :
       InitWith(cfg, set_options(Test("PingTest", << >>, REQ_ICMP, FALSE, FALSE, FALSE),
                                 cfg.delay, cfg.inc_pn))

Construct ==
    /\ proc = "running"
    /\ Len(test.actions) = 0
    /\ \E trigger \in {StartAuth, BeforeAuth, AfterAuth, Connected},
          action \in {GetIp, Rekey, Reconnect, Roam, Inject, Func},
          func \in {None, "ret_none", "ret_drop"},
          enc \in BOOLEAN,
          wait \in {NoneInt, 0, 1} :
          /\ test' = [test EXCEPT !.actions =
                        Append(@, Action(Len(@) + 1, trigger, action, func, enc, wait))]
          /\ hist' = [hist EXCEPT !.built = Append(@, [trigger |-> trigger, action |-> action,
                                                       func |-> func, enc |-> enc,
                                                       wait |-> wait]),
                                  !.order = Ids(test'.actions),
                                  !.initial = Ids(test'.actions),
                                  !.injects = {test'.actions[i].id :
                                                 i \in {j \in 1..Len(test'.actions) :
                                                          test'.actions[j].action = Inject}}]
    /\ UNCHANGED <<stations, daemon, out, proc>>

SpecAction == InitAction /\ [][Construct]_vars

\* a client running a test that waits for a rekey once connected and
\* injects after the next handshake
InitLive ==
    \E cfg \in {Cfg("Supplicant", {"sta"}, "ping", << <<"C", "R">>, <<"A", "E">> >>,
                     TRUE, FALSE, 0, 1, "ccmp", FALSE)} :
       InitFor(cfg)

\* The loop keeps ticking: select returns after half a second at the latest,
\* so an iteration in which time has passed is taken whenever it stays
\* possible.
SpecLive == InitLive /\ [][NextMulti]_vars /\ WF_vars(Timeout)

\* ------------------------------------------- ping tests with a separator

\* the queues of a ping test: up to MaxQueue actions, each a fragment (plain
\* or encrypted) or a GetIp action under any trigger; the id of an action is
\* its position
QueueItems ==
    {[trigger |-> t, action |-> k[1], enc |-> k[2]] :
       t \in {StartAuth, BeforeAuth, AfterAuth, Connected},
       k \in {<<Inject, TRUE>>, <<Inject, FALSE>>, <<GetIp, FALSE>>}}

SepQueues ==
    UNION {{[i \in 1..n |-> Action(i, q[i].trigger, q[i].action, None, q[i].enc, NoneInt)] :
              q \in [1..n -> QueueItems]} : n \in 1..MaxQueue}

\* a PingTest with separate_with set, before its first action is taken
InitSep ==
    \E cfg \in {Cfg("Supplicant", {"sta"}, "custom", << >>, TRUE, FALSE, 0, 1, "ccmp", FALSE)} :
    \E actions \in SepQueues :
       InitWith(cfg, set_options(Test("PingTest", actions, REQ_ICMP, FALSE, TRUE, FALSE),
                                 cfg.delay, cfg.inc_pn))

\* Test.next_action called for the station: generation runs when the head
\* of the queue is the first Inject action, then the head is taken
NextAction ==
    /\ proc = "running"
    /\ Len(test.actions) > 0
    /\ \E W \in {next_action(World(Inp(0, None, FALSE), 0), "sta").W} :
          Commit(W)

SpecSep == InitSep /\ [][NextAction]_vars

\* ------------------------------------- scenarios with an action string

\* macos and eapol_msdu with action strings of one, two and three triggers
OverrideConfigs ==
    { Cfg("Supplicant", {"sta"}, "macos", <<"S", "S", "S">>, TRUE, FALSE, 0, 1, "ccmp", FALSE),
      Cfg("Authenticator", {"c1"}, "eapol_msdu", <<"S", "B", "A">>,
          TRUE, FALSE, 0, 1, "ccmp", FALSE),
      Cfg("Supplicant", {"sta"}, "eapol_msdu", <<"S", "B">>, TRUE, FALSE, 0, 1, "ccmp", FALSE),
      Cfg("Authenticator", {"c1"}, "macos", <<"C">>, TRUE, FALSE, 0, 1, "ccmp", FALSE) }

InitOverride == \E cfg \in OverrideConfigs : InitFor(cfg)

SpecOverride == InitOverride /\ [][Next]_vars

\* ------------------------------------------------------------------ properties

\* the world of the current state, with a control channel that does not fail
CurW ==
    [test |-> test, stations |-> stations, daemon |-> daemon, out |-> out,
     proc |-> proc, hist |-> hist, inp |-> Inp(0, None, FALSE)]

\* the dispatches of the last loop iteration
Calls == {out.calls[i] : i \in 1..Len(out.calls)}

\* the dispatch found a test and the head of the queue had its trigger
HeadMatches(c) ==
    c.active /\ Len(c.pre.actions) > 0 /\ c.pre.actions[1].trigger = c.trigger

NoRepeat(s) == \A i, j \in 1..Len(s) : s[i] = s[j] => i = j

IsQueued(id) == id > 0

ExecutedIds(c) == [j \in 1..Len(c.executed) |-> c.executed[j].id]

Count(s, x) == Cardinality({i \in 1..Len(s) : s[i] = x})

\* the sum of the pnDelta of the encryptions of station m in encs
IncPnOf(encs, m) ==
    SumOver([i \in 1..Len(encs) |-> IF encs[i].sta = m THEN encs[i].inc_pn ELSE 0],
            1..Len(encs))

\* C1: next_action returns the queued actions in their insertion order, each
\* at most once: the actions returned so far followed by the queue are the
\* order of the queue (as generation left it), no action occurs twice in it,
\* the actions queued at construction keep their order, a separator follows
\* the fragment it was inserted after, next_action on an empty queue returns
\* nothing and changes nothing, and a dispatch whose trigger does not match
\* leaves the queue alone.
C1_InsertionOrder ==
    /\ hist.popped \o Ids(test.actions) = hist.order
    /\ NoRepeat(hist.order)
    /\ SelectSeq(hist.order, IsQueued) = hist.initial
    /\ \A i \in 1..Len(hist.order) :
          hist.order[i] < 0 => i > 1 /\ hist.order[i - 1] = 0 - hist.order[i]
    /\ Len(test.actions) = 0 =>
          \A m \in DOMAIN stations : next_action(CurW, m) = [W |-> CurW, act |-> NoAction]
    /\ \A c \in Calls : ~HeadMatches(c) => c.post.actions = c.pre.actions

\* a queue with a separator that was consumed to the end
C1_Witness ==
    /\ proc = "running"
    /\ Len(test.actions) = 0
    /\ \E i \in 1..Len(hist.popped) : hist.popped[i] < 0

\* C2: a dispatch whose trigger is not the trigger of the head of the queue
\* (or with an empty queue, or without an active test) changes nothing of
\* the queue, the generated flag, the counters, the waiting-on-IP flag and
\* the keys, sends no frame, runs no daemon operation and no command, and
\* returns none.
C2_NoMatchNoOp ==
    \A c \in Calls :
       ~HeadMatches(c) =>
          c.post = c.pre /\ c.executed = << >> /\ c.result = None /\ c.returned

\* a dispatch with an active test whose head has another trigger
C2_Witness ==
    \E c \in Calls :
       c.active /\ Len(c.pre.actions) > 0 /\ c.pre.actions[1].trigger # c.trigger

\* C3: one dispatch executes actions in queue order, all of them with the
\* trigger of the dispatch, and none after an action with wait=true: the
\* executed actions followed by the queue left behind are the tail of the
\* order of the queue, and only the last executed action can have wait set.
C3_WaitHalts ==
    \A c \in Calls :
       LET rest == ExecutedIds(c) \o Ids(c.post.actions)
           n == Len(hist.order)
       IN /\ Len(rest) <= n
          /\ SubSeq(hist.order, n - Len(rest) + 1, n) = rest
          /\ \A j \in 1..Len(c.executed) : c.executed[j].trigger = c.trigger
          /\ \A j \in 1..(Len(c.executed) - 1) : ~c.executed[j].wait

\* a dispatch that stopped at an action with wait=true although the next
\* queued action has the trigger of the dispatch
C3_Witness ==
    \E c \in Calls :
       /\ c.returned
       /\ Len(c.executed) > 0
       /\ c.executed[Len(c.executed)].wait
       /\ Len(c.post.actions) > 0
       /\ c.post.actions[1].trigger = c.trigger

\* C4: frame generation runs exactly once per test and lazily: never twice,
\* the generated flag is set exactly when it ran to its end, and it has run
\* exactly when an Inject action (a separator is one) was taken from the
\* queue.
C4_GeneratedOnce ==
    /\ hist.genCount <= 1
    /\ test.generated => hist.genCount = 1
    /\ (hist.genCount = 1 /\ ~test.generated) => proc = "aborted"
    /\ test.generated <=>
          \E i \in 1..Len(hist.popped) :
             hist.popped[i] \in hist.injects \/ hist.popped[i] < 0

\* a non-Inject action was consumed first and two Inject actions after it
C4_Witness ==
    /\ test.generated
    /\ Len(hist.popped) > 0
    /\ hist.popped[1] \notin hist.injects
    /\ Cardinality({i \in 1..Len(hist.popped) :
                      hist.popped[i] \in hist.injects \/ hist.popped[i] < 0}) >= 2

C6_KeyPresent ==
    /\ \A i \in 1..Len(out.encs) : out.encs[i].key # None
    /\ \A i \in 1..Len(out.sent) : out.sent[i].cipher # "plain" => out.sent[i].key # None

\* an encrypted Inject action met absent keys: the dispatch ended in the
\* assertion, before any encryption
C6_Witness ==
    \E c \in Calls :
       /\ ~c.returned
       /\ out.error = "AssertionError"
       /\ c.pre.tk = None
       /\ \A i \in 1..Len(out.encs) : out.encs[i].sta # c.sta

\* C7: once the success predicate has matched a frame, no dispatch of any
\* station executes an action or sends a frame.
C7_NoDispatchAfterSuccess ==
    hist.success =>
       \A c \in Calls : c.executed = << >> /\ c.post.nsent = c.pre.nsent

\* C8: in every authentication attempt of which a non-EAP EAPOL frame was
\* sent, StartAuth was dispatched exactly once.
C8_StartAuthOncePerAttempt ==
    \A m \in AllMacs : hist.att[m].frames => hist.att[m].sa = 1

\* C9: in every authentication attempt BeforeAuth was dispatched at most
\* once, never on a frame without the secure bit, and it was dispatched once
\* a frame with the secure bit was sent.
C9_BeforeAuthOncePerAttempt ==
    \A m \in AllMacs :
       /\ hist.att[m].ba <= 1
       /\ ~hist.att[m].baNonSec
       /\ hist.att[m].sec => hist.att[m].ba = 1

\* C10: every completion notification of a tracked station whose handler
\* runs to its end dispatches AfterAuth exactly once, AfterAuth is dispatched
\* by nothing else, the dispatch comes after the two key requests on the
\* control channel and finds both keys present, so that it never ends in the
\* assertion on the keys.
C10_AfterAuthOnce ==
    /\ \A m \in AllMacs :
          LET n == Count(out.events, <<"handle_authenticated", m>>)
              k == Cardinality({i \in 1..Len(out.calls) :
                                  out.calls[i].sta = m /\ out.calls[i].trigger = AfterAuth})
          IN /\ k <= n
             /\ k < n => proc # "running" /\ out.error # "AssertionError"
    /\ \A c \in Calls :
          c.trigger = AfterAuth =>
             /\ c.pre.tk # None /\ c.pre.gtk # None /\ c.pre.gtk_idx # NoneInt
             /\ c.pre.ncmds >= 2
             /\ out.cmds[c.pre.ncmds - 1][1] \in {"GET_TK", "GET"}
             /\ out.cmds[c.pre.ncmds][1] = "GET_GTK"
             /\ ~c.returned => out.error # "AssertionError"

\* an AfterAuth dispatch that injected an encrypted frame
C10_Witness ==
    \E c \in Calls :
       /\ c.trigger = AfterAuth
       /\ c.returned
       /\ \E j \in 1..Len(c.executed) : c.executed[j].action = Inject
       /\ \E i \in 1..Len(out.encs) : out.encs[i].sta = c.sta /\ out.encs[i].inc_pn >= 1
       /\ c.post.nsent > c.pre.nsent

\* C11: after an authentication of a station completed, Connected is
\* dispatched for it at most once: by the timer armed at the completion or
\* by the arrival of the IP address an action waits for, never by both and
\* by neither of them twice.
C11_ConnectedOncePerAuth ==
    \A m \in AllMacs : hist.conn[m].timer + hist.conn[m].ip <= 1

\* the requests for an IP address that the daemon got during dispatch c of
\* the outputs o
GetIpRequests(o, c) ==
    Cardinality({i \in (c.pre.nops + 1)..c.post.nops : o.ops[i] = <<"get_ip", c.sta>>})

\* what a dispatch does with a GetIp action: without an IP address it marks
\* waiting-on-IP, asks the daemon once and executes nothing after it; with
\* one it asks nothing, leaves the mark alone and goes on with the queue
GetIpRule(o) ==
    \A i \in 1..Len(o.calls) :
       LET c == o.calls[i]
           n == Len(c.executed)
       IN \A j \in 1..n :
             c.executed[j].action = GetIp =>
                IF ~c.pre.obtained_ip
                THEN /\ j = n
                     /\ c.post.waiting_on_ip
                     /\ GetIpRequests(o, c) = 1
                     /\ o.ops[c.post.nops] = <<"get_ip", c.sta>>
                ELSE /\ GetIpRequests(o, c) = 0
                     /\ c.post.waiting_on_ip = c.pre.waiting_on_ip
                     /\ (c.returned /\ j = n /\ ~c.executed[j].wait) =>
                           \/ Len(c.post.actions) = 0
                           \/ c.post.actions[1].trigger # c.trigger

\* station m, waiting on its IP address with actions left in the queue,
\* obtains the address in this step and the loop goes on
ObtainsIp(m) ==
    /\ m \in DOMAIN stations
    /\ stations[m].test
    /\ stations[m].waiting_on_ip /\ ~stations[m].obtained_ip
    /\ Len(test.actions) > 0
    /\ stations'[m].obtained_ip
    /\ proc' = "running"

\* a dispatch of station m in this step, with the address known, that
\* executed an action
Resumes(m) ==
    \E i \in 1..Len(out'.calls) :
       /\ out'.calls[i].sta = m
       /\ out'.calls[i].pre.obtained_ip
       /\ Len(out'.calls[i].executed) > 0

\* C12 as stated: a GetIp action without an IP address marks waiting-on-IP,
\* asks the daemon for one and ends its dispatch; with one it asks nothing
\* and does not stop; and once a waiting station obtains its address, the
\* actions queued behind the GetIp action are executed.
C12_ResumesOnIp ==
    [][ GetIpRule(out') /\ \A m \in AllMacs : ObtainsIp(m) => Resumes(m) ]_vars

\* C12: as above, but when the waiting station obtains its address it
\* clears the mark and dispatches Connected, so the actions queued behind
\* the GetIp action are executed then if they have the Connected trigger.
C12_ResumesOnIpByConnected ==
    [][ /\ GetIpRule(out')
        /\ \A m \in AllMacs :
              ObtainsIp(m) =>
                 /\ ~stations'[m].waiting_on_ip
                 /\ \E i \in 1..Len(out'.calls) :
                       /\ out'.calls[i].sta = m
                       /\ out'.calls[i].trigger = Connected
                       /\ out'.calls[i].pre.obtained_ip
                       /\ ~out'.calls[i].pre.waiting_on_ip
                 /\ test.actions[1].trigger = Connected => Resumes(m)
      ]_vars

\* the arrival of the address made a dispatch execute the Inject action
\* queued behind a GetIp action
C12_Witness ==
    \E c \in Calls :
       /\ c.trigger = Connected
       /\ c.pre.obtained_ip
       /\ hist.conn[c.sta].ip > 0
       /\ Len(hist.popped) > 1
       /\ c.returned
       /\ Len(c.executed) > 0
       /\ c.executed[1].action = Inject

\* the frames sent during dispatch c, as positions of out.sent
SentIn(c) == (c.pre.nsent + 1)..c.post.nsent

\* the dummy frames of the workaround among them
DummiesIn(c) == {i \in SentIn(c) : out.sent[i].via = "workaround"}

\* the frames of Inject actions among them
InjectedIn(c) == {i \in SentIn(c) : out.sent[i].via = "inject"}

\* the greatest element of a non-empty set of numbers
Last(S) == CHOOSE i \in S : \A j \in S : j <= i

\* C13: a dispatch that runs to its end injects the dummy frame of the
\* workaround, once and as its last frame, exactly when the workaround is
\* enabled and the last frame of an Inject action it transmitted had the
\* more-fragments flag; no dummy frame is injected otherwise, or outside a
\* dispatch.
C13_WorkaroundIff ==
    /\ \A c \in Calls :
          LET due == /\ c.returned
                     /\ daemon.inject_workaround
                     /\ InjectedIn(c) # {}
                     /\ out.sent[Last(InjectedIn(c))].frame.MF
          IN /\ Cardinality(DummiesIn(c)) = IF due THEN 1 ELSE 0
             /\ due => DummiesIn(c) = {c.post.nsent}
    /\ \A i \in 1..Len(out.sent) :
          out.sent[i].via = "workaround" =>
             /\ out.sent[i].frame = DummyFrame
             /\ \E c \in Calls : i \in SentIn(c)

\* a dispatch injected a fragment with the more-fragments flag last, and the
\* dummy frame after it
C13_Witness ==
    \E c \in Calls :
       /\ c.returned
       /\ DummiesIn(c) # {}
       /\ InjectedIn(c) # {}
       /\ out.sent[Last(InjectedIn(c))].frame.MF

\* the first Inject action of a queue (0 if it has none)
FirstInject(q) ==
    IF \E i \in 1..Len(q) : q[i].action = Inject
    THEN CHOOSE i \in 1..Len(q) : q[i].action = Inject /\ \A j \in 1..(i - 1) : q[j].action # Inject
    ELSE 0

\* C14: generation changes the delay and pnDelta of the Inject actions after
\* the first Inject action of the queue only (to the configured values): the
\* first Inject action and every other action keep theirs, the queue
\* afterwards holds these values, and enforce_delay changes nothing when the
\* configured delay is absent, zero or negative.
C14_EnforceAfterFirstInject ==
    /\ test.generated =>
          LET b == hist.prepared
              a == hist.enforced
              f == FirstInject(b)
          IN /\ Len(a) = Len(b)
             /\ \A i \in 1..Len(b) :
                   IF b[i].action = Inject /\ i > f
                   THEN /\ a[i].id = b[i].id /\ a[i].action = b[i].action
                        /\ a[i].delay = IF test.delay # NoneInt /\ test.delay > 0
                                        THEN test.delay ELSE b[i].delay
                        /\ a[i].inc_pn = IF test.inc_pn # NoneInt
                                         THEN test.inc_pn ELSE b[i].inc_pn
                   ELSE a[i] = b[i]
             /\ Len(test.actions) <= Len(a)
             /\ Opts(test.actions) = SubSeq(a, Len(a) - Len(test.actions) + 1, Len(a))
    /\ \A d \in {NoneInt, -1, 0} :
          enforce_delay(set_options(test, d, test.inc_pn)) = set_options(test, d, test.inc_pn)
    /\ enforce_inc_pn(set_options(test, test.delay, NoneInt))
          = set_options(test, test.delay, NoneInt)

\* generation found an action that is not an Inject action among several
\* Inject actions and changed one of the later ones
C14_Witness ==
    /\ test.generated
    /\ \E i \in 1..Len(hist.prepared) : hist.prepared[i].action # Inject
    /\ \E i \in 1..Len(hist.prepared) : hist.enforced[i] # hist.prepared[i]
    /\ hist.enforced[FirstInject(hist.prepared)] = hist.prepared[FirstInject(hist.prepared)]

IsInject(e) == e.action = Inject
ViaInject(x) == x.via = "inject"

\* the Inject actions that dispatch c executed, and the frames it handed to
\* the daemon for them
InjSeq(c) == SelectSeq(c.executed, IsInject)
SentSeq(c) == SelectSeq(SubSeq(out.sent, c.pre.nsent + 1, c.post.nsent), ViaInject)

\* the sum of the pnDelta of the encrypted ones among the first k actions of a
EncPnSum(a, k) ==
    SumOver([j \in 1..k |-> IF a[j].encrypted THEN a[j].inc_pn ELSE 0], 1..k)

\* C15: every Inject action that a dispatch executes to its end hands exactly
\* one frame to the daemon, in the order of execution.  Without encryption it
\* is the frame of the action, with no key and no packet number, and the
\* counter stays.  With encryption the key is the group key with its index
\* for a multicast destination and the pairwise key with index 0 for a
\* unicast one, the all-zero key of that length with a key override, the
\* packet number is the counter advanced by the pnDelta of the action, and
\* the cipher is CCMP for a key of 16 bytes and WEP otherwise.
C15_InjectOneFrame ==
    \A c \in Calls :
       LET a == InjSeq(c)
           s == SentSeq(c)
           own == Cardinality({i \in SentIn(c) :
                                 out.sent[i].via = "send_mon" /\ out.sent[i].cipher # "plain"})
       IN /\ Len(s) <= Len(a)
          /\ Len(a) - Len(s) <= IF c.returned THEN 0 ELSE 1
          /\ c.returned => c.post.pn = c.pre.pn + EncPnSum(a, Len(a)) + own
          /\ \A k \in 1..Len(s) :
                LET act == a[k]
                    x == s[k]
                    sel == IF act.frame.mcast THEN c.pre.gtk ELSE c.pre.tk
                    key == IF act.key = 0 THEN ZeroKey(KeyLen(sel)) ELSE sel
                IN /\ x.frame = act.frame
                   /\ IF ~act.encrypted
                      THEN x.cipher = "plain" /\ x.key = None /\ x.pn = NoneInt
                      ELSE /\ x.key = key
                           /\ x.keyid = IF act.frame.mcast THEN c.pre.gtk_idx ELSE 0
                           /\ x.pn = c.pre.pn + EncPnSum(a, k)
                           /\ x.cipher = IF KeyLen(key) = 16 THEN "ccmp" ELSE "wep"

\* a dispatch injected a frame encrypted under the group key
C15_Witness ==
    \E c \in Calls :
       /\ c.returned
       /\ \E k \in 1..Len(SentSeq(c)) :
             /\ InjSeq(c)[k].encrypted
             /\ InjSeq(c)[k].frame.mcast
             /\ SentSeq(c)[k].key = c.pre.gtk
             /\ SentSeq(c)[k].keyid = c.pre.gtk_idx

FailReplies == {"FAIL", "UNKNOWN COMMAND"}

\* C16: a reply holding FAIL or UNKNOWN COMMAND to any command ends the
\* process there: the command is the last one of the run, no frame is sent,
\* no daemon operation started and no action taken from the queue after it,
\* the process ends for no other reply, and once it has ended nothing
\* happens any more.
C16_FailIsFatal ==
    [][ /\ proc = "running"
        /\ out'.error \in FailReplies =>
              /\ proc' = "quit"
              /\ out'.fail.ncmds = Len(out'.cmds)
              /\ out'.fail.nsent = Len(out'.sent)
              /\ out'.fail.nops = Len(out'.ops)
              /\ out'.fail.npopped = Len(hist'.popped)
        /\ proc' = "quit" => out'.error \in FailReplies /\ out'.fail.ncmds > 0
      ]_vars

\* the command of a reconnect got a failing reply after a frame was injected,
\* with an action left in the queue
C16_Witness ==
    /\ proc = "quit"
    /\ out.error \in FailReplies
    /\ out.cmds[Len(out.cmds)][1] \in {"DISASSOCIATE", "REASSOCIATE"}
    /\ Len(out.sent) > 0
    /\ Len(test.actions) > 0

\* the commands that the implementation of an action kind of a role issues
\* on the control channel
OpCmds(role, kind, sta) ==
    IF role = "Authenticator"
    THEN CASE kind = Rekey -> << <<"REKEY_PTK", get_peermac(sta)>> >>
           [] kind = Reconnect -> << <<"DISASSOCIATE", get_peermac(sta)>> >>
           [] OTHER -> << >>
    ELSE CASE kind = Rekey -> << >>
           [] kind = Reconnect -> << <<"SET", "reassoc_same_bss_optim 1">>, <<"REASSOCIATE", "">> >>
           [] OTHER -> << <<"SET", "reassoc_same_bss_optim 0">>, <<"ROAM", sta.bss>> >>

\* C17: every Rekey, Roam or Reconnect action that a connected station
\* executes, in either role, issues the commands of the role's implementation
\* and nothing else, and its dispatch runs to its end, unless the control
\* channel answers with a failure.
C17_RoleOpsComplete ==
    \A c \in Calls :
       \A j \in 1..Len(c.executed) :
          (c.executed[j].action \in {Rekey, Roam, Reconnect} /\ stations[c.sta].bss # None) =>
             \/ out.error \in FailReplies
             \/ /\ c.returned
                /\ j = Len(c.executed)
                /\ SubSeq(out.cmds, c.pre.ncmds + 1, c.post.ncmds)
                      = OpCmds(daemon.role, c.executed[j].action, stations[c.sta])

\* the notifications that the Authenticator ignores: an EAPOL-TX or an
\* AP-STA-CONNECTED for a MAC without a Station, and any other type
Ignored(msg) ==
    \/ msg.type = "OTHER"
    \/ msg.type \in {"EAPOL-TX", "AP-STA-CONNECTED"} /\ msg.mac \notin DOMAIN stations

\* the Authenticator keeps one Station per MAC, in the order of their first
\* connection, and its handler leaves the world alone for the ignored
\* notifications
OneStationPerMac ==
    /\ NoRepeat(daemon.order)
    /\ {daemon.order[i] : i \in 1..Len(daemon.order)} = DOMAIN stations
    /\ DOMAIN stations \subseteq daemon.macs
    /\ \A msg \in CtrlMsgs :
          Ignored(msg) => Authenticator_handle_wpaspy(CurW, msg) = CurW

\* C18: the Authenticator has one Station per client MAC and never drops
\* one; when a client with a Station connects again the Station is kept: its
\* packet number moves by encryptions only, its sequence number does not go
\* back, its IP addresses stay, and its keys are reset; notifications for a
\* MAC without a Station and notifications of unknown type change nothing
\* and dispatch nothing.
C18_OneStationPerMac ==
    [][ daemon.role = "Authenticator" =>
           /\ OneStationPerMac'
           /\ DOMAIN stations \subseteq DOMAIN stations'
           /\ \A m \in DOMAIN stations :
                 Count(out'.events, <<"handle_connecting", m>>) > 0 =>
                    /\ stations'[m].pn = stations[m].pn + IncPnOf(out'.encs, m)
                    /\ stations'[m].seqnum >= stations[m].seqnum
                    /\ stations'[m].ip = stations[m].ip
                    /\ stations'[m].peerip = stations[m].peerip
                    /\ stations'[m].obtained_ip = stations[m].obtained_ip
                    /\ stations'[m].tk = None
                    /\ stations'[m].gtk = None
                    /\ stations'[m].gtk_idx = NoneInt
      ]_vars

\* a client that had used packet numbers and sequence numbers connected
\* again, next to a second client
C18_Witness ==
    \E m \in DOMAIN stations :
       /\ daemon.role = "Authenticator"
       /\ Cardinality(DOMAIN stations) = 2
       /\ Count(out.events, <<"handle_connecting", m>>) > 0
       /\ stations[m].pn > PnInit
       /\ stations[m].seqnum > SeqInit
       /\ stations[m].obtained_ip
       /\ stations[m].tk = None

\* the DHCP messages of the given kind that the station sent in outputs o
DhcpSent(o, kind) ==
    {i \in 1..Len(o.sent) : o.sent[i].via = "send_mon" /\ o.sent[i].frame.kind = kind}

\* the DHCP message that get_ip sends: a discover until an offer came, a
\* request after it
DhcpKind(d) == IF d.dhcp_offer_frame THEN "dhcp_request" ELSE "dhcp_discover"

\* C19: in the Supplicant role a request for an IP address sends a DHCP
\* message and arms the retransmission timer with 2.5 seconds; an armed
\* timer runs down and, when it expires, the message is sent again (a
\* discover until an offer came, a request after it) and the timer is armed
\* again, as long as the process runs and until the Ack; the Ack clears the
\* timer and sets the addresses of the station, no DHCP message is sent in
\* that iteration, and from then on the timer stays cleared and no discover
\* is sent.
C19_DhcpRetransmission ==
    [][ daemon.role = "Supplicant" =>
           LET t == daemon.time_retrans_dhcp
               u == daemon'.time_retrans_dhcp
               sta == stations["sta"]
               after == stations'["sta"]
               again == /\ u = RetransDelay
                        /\ DhcpSent(out', DhcpKind(daemon')) # {}
           IN /\ (\E i \in 1..Len(out'.ops) : out'.ops[i] = <<"get_ip", "sta">>) => again
              /\ (t # NoneInt /\ after.obtained_ip = sta.obtained_ip /\ proc' = "running") =>
                    \/ 0 < u /\ u <= t
                    \/ again
              /\ (~sta.obtained_ip /\ after.obtained_ip) =>
                    /\ u = NoneInt
                    /\ after.ip = "clientip" /\ after.peerip = "serverip"
                    /\ DhcpSent(out', "dhcp_discover") = {}
                    /\ DhcpSent(out', "dhcp_request") = {}
              /\ sta.obtained_ip =>
                    /\ t = NoneInt /\ u = NoneInt
                    /\ DhcpSent(out', "dhcp_discover") = {}
      ]_vars

\* the timer expired after an offer and the request was sent again
C19_Witness ==
    /\ daemon.role = "Supplicant"
    /\ daemon.dhcp_offer_frame
    /\ daemon.time_retrans_dhcp = RetransDelay
    /\ DhcpSent(out, "dhcp_request") # {}
    /\ out.ops = << <<"get_ip", "sta">> >>
    /\ out.calls = << >>
    /\ ~stations["sta"].obtained_ip

\* the frames of the queue as the dispatch c that ran the generation left
\* it: those of the actions it executed, then those still queued
FramesAfter(c) ==
    [j \in 1..Len(c.executed) |-> c.executed[j].frame]
       \o [j \in 1..Len(c.post.actions) |-> c.post.actions[j].frame]

\* dispatch c ran the generation of a LinuxTest
GeneratesLinux(c) ==
    test.kind = "LinuxTest" /\ ~c.pre.generated /\ c.post.generated

\* C20: the Linux test queues three Inject actions under Connected, the
\* first two encrypted and the third not; after generation they carry, in
\* this order, fragment 1 of the request, a copy of fragment 2 that differs
\* from it in bit 4 (value 16) of the sequence-control field and in nothing
\* else, and fragment 2 itself.
C20_LinuxFrames ==
    \A c \in Calls :
       GeneratesLinux(c) =>
          LET q == c.pre.actions
              f == FramesAfter(c)
              frags == create_fragments(Header(c.pre.seqnum), "icmp", 2)
          IN /\ Len(q) = 3
             /\ \A i \in 1..3 : q[i].trigger = Connected /\ q[i].action = Inject
             /\ q[1].encrypted /\ q[2].encrypted /\ ~q[3].encrypted
             /\ Len(f) = 3
             /\ f[1] = frags[1]
             /\ f[3] = frags[2]
             /\ f[2].SC = IF BitSet(f[3].SC, 16) THEN f[3].SC - 16 ELSE f[3].SC + 16
             /\ [f[2] EXCEPT !.SC = f[3].SC] = f[3]

\* a dispatch generated the frames of the Linux test, with bit 4 set in the
\* sequence-control field of fragment 2, and injected all three
C20_Witness ==
    \E c \in Calls :
       /\ GeneratesLinux(c)
       /\ c.returned
       /\ Len(c.executed) = 3
       /\ c.post.nsent >= c.pre.nsent + 3
       /\ BitSet(FramesAfter(c)[3].SC, 16)

Forwarded == {i \in 1..Len(out.sent) :
                 out.sent[i].via = "send_mon" /\ out.sent[i].frame.kind = "eapol"}

\* the result of the last callback among the executed actions (None if no
\* callback was executed)
RECURSIVE FuncResultOf(_)
FuncResultOf(executed) ==
    IF Len(executed) = 0 THEN None
    ELSE IF executed[Len(executed)].action = Func
    THEN FuncResult(executed[Len(executed)].func)
    ELSE FuncResultOf(SubSeq(executed, 1, Len(executed) - 1))

\* C22: when a station handles an outbound EAPOL frame, at most one of
\* StartAuth and BeforeAuth is dispatched; the result of the dispatch is the
\* result of the callback it executed (of the last one, None without one);
\* the EAPOL frame is forwarded over the monitor interface, once, exactly
\* when no dispatch gave a result other than None; and every frame that the
\* dispatch transmitted precedes the forwarded EAPOL frame.
C22_InjectBeforeForward ==
    \A m \in DOMAIN stations :
       LET cs == {i \in 1..Len(out.calls) :
                    out.calls[i].sta = m /\ out.calls[i].trigger \in {StartAuth, BeforeAuth}}
       IN /\ cs # {} => Count(out.events, <<"handle_eapol_tx", m>>) = 1
          /\ (Count(out.events, <<"handle_eapol_tx", m>>) = 1
                /\ \A i \in cs : out.calls[i].returned) =>
                /\ Cardinality(cs) <= 1
                /\ \A i \in cs : out.calls[i].result = FuncResultOf(out.calls[i].executed)
                /\ Cardinality(Forwarded) = IF \A i \in cs : out.calls[i].result = None
                                            THEN 1 ELSE 0
                /\ \A i \in cs, j \in Forwarded :
                      /\ out.calls[i].post.nsent < j
                      /\ \A k \in SentIn(out.calls[i]) : k < j

\* a StartAuth or BeforeAuth dispatch injected a frame and the EAPOL frame
\* was forwarded after it
C22_Witness ==
    \E c \in Calls :
       /\ c.trigger \in {StartAuth, BeforeAuth}
       /\ c.returned
       /\ InjectedIn(c) # {}
       /\ c.result = None
       /\ \E j \in Forwarded : j > Last(InjectedIn(c))
C24_MissingKeyAborts ==
    \A i \in 1..Len(out.calls) :
       LET c == out.calls[i]
       IN \A j \in 1..Len(c.executed) :
             (/\ c.executed[j].action = Inject
              /\ c.executed[j].encrypted
              /\ (c.pre.tk = None \/ c.pre.gtk = None)) =>
                /\ proc = "aborted"
                /\ out.error = "AssertionError"
                /\ ~c.returned
                /\ j = Len(c.executed)
                /\ i = Len(out.calls)
                /\ Cardinality(SentIn(c)) =
                      Cardinality({k \in 1..(j - 1) : c.executed[k].action = Inject})
                /\ \A k \in SentIn(c) : out.sent[k].via = "inject" /\ out.sent[k].cipher = "plain"
                /\ c.post.pn = c.pre.pn
                /\ \A k \in 1..Len(out.encs) : out.encs[k].sta # c.sta
                /\ c.post.tk = c.pre.tk /\ c.post.gtk = c.pre.gtk

\* the wake-up dispatched Connected after a new connection had reset the
\* keys, and the encrypted Inject action at the head of the queue failed
C24_Witness ==
    \E c \in Calls :
       /\ c.trigger = Connected
       /\ c.pre.tk = None
       /\ Len(c.executed) > 0
       /\ c.executed[Len(c.executed)].action = Inject
       /\ c.executed[Len(c.executed)].encrypted
       /\ proc = "aborted"
       /\ SentIn(c) = {}
\* C25: an iteration in which a station that exists begins a new connection
\* (and in which nothing is dispatched or sent) sets its BSS address, leaves
\* its pairwise key, group key and group key index absent, and changes
\* nothing else of it: packet number, sequence number, the flags of
\* StartAuth and BeforeAuth, the IP state and the pending wake-up (which only
\* comes closer as time passes) are kept, and so is the test with its queue.
\* The keys of a station change in no other iteration than one that begins
\* a new connection or completes an authentication; a rekey that is
\* requested leaves them as they are (as the completion of that iteration
\* set them, if it is requested after a completion).
C25_ConnectingResetsKeysOnly ==
    [][\A m \in DOMAIN stations :
          /\ (/\ Count(out'.events, <<"handle_connecting", m>>) > 0
              /\ out'.calls = << >>
              /\ out'.sent = << >>) =>
                /\ proc' = "running"
                /\ stations'[m].bss # None
                /\ stations'[m].tk = None
                /\ stations'[m].gtk = None
                /\ stations'[m].gtk_idx = NoneInt
                /\ [stations'[m] EXCEPT !.bss = stations[m].bss,
                                        !.tk = stations[m].tk,
                                        !.gtk = stations[m].gtk,
                                        !.gtk_idx = stations[m].gtk_idx,
                                        !.peermac = stations[m].peermac,
                                        !.time_connected = stations[m].time_connected]
                      = stations[m]
                /\ stations'[m].time_connected
                      \in {stations[m].time_connected,
                           TimerAfter(stations[m].time_connected, 1)}
                /\ test' = test
                /\ hist'.popped = hist.popped
          /\ (\/ stations'[m].tk # stations[m].tk
              \/ stations'[m].gtk # stations[m].gtk
              \/ stations'[m].gtk_idx # stations[m].gtk_idx) =>
                \/ Count(out'.events, <<"handle_connecting", m>>) > 0
                \/ Count(out'.events, <<"handle_authenticated", m>>) > 0
          /\ (/\ \E i \in 1..Len(out'.ops) : out'.ops[i] = <<"rekey", m>>
              /\ Count(out'.events, <<"handle_connecting", m>>) = 0) =>
                IF Count(out'.events, <<"handle_authenticated", m>>) > 0
                THEN /\ stations'[m].tk # None
                     /\ stations'[m].gtk # None
                     /\ stations'[m].gtk_idx # NoneInt
                ELSE /\ stations'[m].tk = stations[m].tk
                     /\ stations'[m].gtk = stations[m].gtk
                     /\ stations'[m].gtk_idx = stations[m].gtk_idx
      ]_vars

\* a station that had used packet numbers and headers and whose wake-up is
\* pending began a new connection: the keys are absent, the wake-up is
\* still pending
C25_Witness ==
    \E m \in DOMAIN stations :
       /\ Count(out.events, <<"handle_connecting", m>>) > 0
       /\ out.calls = << >>
       /\ stations[m].tk = None
       /\ stations[m].time_connected # NoneInt
       /\ stations[m].seqnum > SeqInit
       /\ stations[m].txed_before_auth_done
\* the number, in queue order, of the Inject action id among the Inject
\* actions the test was constructed with
FragRank(id) ==
    Cardinality({k \in 1..Len(hist.order) :
                    /\ hist.order[k] \in hist.injects
                    /\ \E l \in k..Len(hist.order) : hist.order[l] = id})

\* action a holds the fragment of its number: of as many fragments as the
\* test has Inject actions, the more-fragments flag on all but the last
FragmentOk(a) ==
    /\ a.frame # NoFrame
    /\ a.frame.part = FragRank(a.id)
    /\ a.frame.SC % 16 = FragRank(a.id) - 1
    /\ a.frame.MF = (FragRank(a.id) < Cardinality(hist.injects))
    /\ a.frame.mcast = test.bcast
    /\ a.frame.kind \in {"arp", "icmp", "dhcp", "amsdu_arp", "amsdu_icmp", "amsdu_dhcp"}

\* C26: in a ping test, generation makes as many fragments of one request as
\* the queue holds Inject actions and gives the i-th fragment to the i-th
\* Inject action in queue order, all under one header; a dispatch transmits
\* the fragments of the Inject actions it executes, in fragment order, each
\* encrypted exactly when its action asks for it; and before generation has
\* run the test has no success predicate, no action holds a frame, and no
\* success is recorded.
C26_PingFragments ==
    test.kind = "PingTest" =>
       /\ ~test.generated =>
             /\ ~test.check_fn
             /\ ~hist.success
             /\ \A i \in 1..Len(test.actions) : test.actions[i].frame = NoFrame
             /\ \A c \in Calls : \A j \in 1..Len(c.executed) : c.executed[j].action # Inject
       /\ test.generated =>
             /\ test.check_fn
             /\ \A i \in 1..Len(test.actions) :
                   test.actions[i].id \in hist.injects => FragmentOk(test.actions[i])
             /\ \A i, j \in 1..Len(test.actions) :
                   (test.actions[i].id \in hist.injects /\ test.actions[j].id \in hist.injects) =>
                      test.actions[i].frame.SC \div 16 = test.actions[j].frame.SC \div 16
       /\ \A c \in Calls :
             /\ \A j \in 1..Len(c.executed) :
                   c.executed[j].id \in hist.injects =>
                      /\ FragmentOk(c.executed[j])
                      /\ \A i \in 1..Len(test.actions) :
                            test.actions[i].id \in hist.injects =>
                               test.actions[i].frame.SC \div 16
                                  = c.executed[j].frame.SC \div 16
             /\ \A k \in 1..Len(SentSeq(c)) :
                   InjSeq(c)[k].id \in hist.injects =>
                      /\ SentSeq(c)[k].frame.part = FragRank(InjSeq(c)[k].id)
                      /\ InjSeq(c)[k].encrypted <=> SentSeq(c)[k].cipher # "plain"
                      /\ \A l \in 1..(k - 1) :
                            InjSeq(c)[l].id \in hist.injects =>
                               SentSeq(c)[l].frame.part < SentSeq(c)[k].frame.part

\* a ping test with 2 Inject actions that ask for encryption: one dispatch
\* transmitted fragment 1 and then fragment 2, both encrypted, and these are
\* the encrypted fragments it transmitted
C26_Witness ==
    /\ test.kind = "PingTest"
    /\ Cardinality(hist.injects) = 2
    /\ \E c \in Calls :
          /\ c.returned
          /\ \E k, l \in 1..Len(SentSeq(c)) :
                /\ k < l
                /\ SentSeq(c)[k].frame.part = 1 /\ SentSeq(c)[k].frame.MF
                /\ SentSeq(c)[l].frame.part = 2 /\ ~SentSeq(c)[l].frame.MF
                /\ SentSeq(c)[k].cipher = "ccmp" /\ SentSeq(c)[l].cipher = "ccmp"
          /\ Cardinality({k \in 1..Len(SentSeq(c)) :
                            SentSeq(c)[k].frame.part > 0 /\ SentSeq(c)[k].cipher # "plain"}) = 2

\* C27: when a ping test has a separator configured, generation leaves the
\* original actions in their order, puts exactly one separator Inject action
\* (same trigger, same encryption flag, the separator frame) right after
\* every fragment that is followed by another queued action, and puts no
\* separator anywhere else: none after the last queued action, none after a
\* separator, none after an action that is not a fragment.  The queue
\* before the step is the one generation sees; the queue after it is the
\* generated one without its head, which next_action has taken.
Separated(pre, post) ==
    LET full == <<pre[1]>> \o post
        IsSepOf(s, a) ==
            /\ s.id = 0 - a.id
            /\ s.action = Inject
            /\ s.trigger = a.trigger
            /\ s.encrypted = a.encrypted
            /\ s.frame = SeparatorFrame
    IN /\ SelectSeq(Ids(full), LAMBDA id : id > 0) = Ids(pre)
       /\ \A p \in 1..Len(full) :
             full[p].id > 0 =>
               /\ \E j \in 1..Len(pre) :
                     /\ pre[j].id = full[p].id
                     /\ pre[j].action = full[p].action
                     /\ pre[j].trigger = full[p].trigger
                     /\ pre[j].encrypted = full[p].encrypted
               /\ (full[p].action = Inject /\ p < Len(full)) => IsSepOf(full[p + 1], full[p])
       /\ \A p \in 1..Len(full) :
             full[p].id < 0 =>
               /\ p > 1
               /\ full[p - 1].id > 0
               /\ full[p - 1].action = Inject
               /\ IsSepOf(full[p], full[p - 1])
       /\ full[Len(full)].id > 0

C27_SeparatorsInterleaved ==
    [][(test.separate_with /\ ~test.generated /\ test'.generated)
         => Separated(test.actions, test'.actions)]_vars

\* generation has put a separator after each of two fragments with
\* different triggers and encryption flags, and none after the last action
C27_Witness ==
    /\ test.separate_with
    /\ test.generated
    /\ hist.order = <<1, -1, 2, -2, 3>>
    /\ Len(test.actions) = 4
    /\ test.actions[1].trigger = AfterAuth /\ test.actions[1].encrypted
    /\ test.actions[2].trigger = Connected /\ ~test.actions[2].encrypted
    /\ test.actions[3].trigger = Connected /\ ~test.actions[3].encrypted
    /\ test.actions[3].frame = SeparatorFrame
    /\ test.actions[4].action = GetIp

\* C28: over the EAPOL frames a station observes, StartAuth and BeforeAuth
\* alternate, starting with StartAuth: the flags txed_before_auth and
\* txed_before_auth_done are never both set; one iteration (one frame)
\* dispatches at most one of the two triggers; BeforeAuth is dispatched only
\* when the trigger the station dispatched last is StartAuth, and StartAuth
\* only when it is not; an EAP frame dispatches neither and leaves both
\* flags as they were.
C28_TriggersAlternate ==
    [][/\ Cardinality({i \in 1..Len(out'.calls) :
                         out'.calls[i].trigger \in {StartAuth, BeforeAuth}}) <= 1
       /\ \A m \in DOMAIN stations' :
             /\ ~(stations'[m].txed_before_auth /\ stations'[m].txed_before_auth_done)
             /\ (\E i \in 1..Len(out'.calls) :
                    out'.calls[i].sta = m /\ out'.calls[i].trigger = BeforeAuth)
                   => hist.last[m] = StartAuth
             /\ (\E i \in 1..Len(out'.calls) :
                    out'.calls[i].sta = m /\ out'.calls[i].trigger = StartAuth)
                   => hist.last[m] # StartAuth
             /\ Count(out'.events, <<"EAP in eapol", m>>) > 0
                   => /\ \A i \in 1..Len(out'.calls) :
                            out'.calls[i].trigger \notin {StartAuth, BeforeAuth}
                      /\ m \in DOMAIN stations
                      /\ stations'[m].txed_before_auth = stations[m].txed_before_auth
                      /\ stations'[m].txed_before_auth_done = stations[m].txed_before_auth_done
                      /\ hist'.last[m] = hist.last[m]]_vars

\* a station dispatches StartAuth for the second time in one attempt, after
\* its BeforeAuth
C28_Witness ==
    \E m \in DOMAIN stations :
       /\ \E i \in 1..Len(out.calls) : out.calls[i].sta = m /\ out.calls[i].trigger = StartAuth
       /\ hist.att[m].sa = 2
       /\ hist.att[m].ba = 1
       /\ hist.last[m] = StartAuth
       /\ stations[m].txed_before_auth
       /\ ~stations[m].txed_before_auth_done

\* C29: a non-EAP EAPOL frame that a station observes clears its pending
\* Connected wake-up, whether or not the frame dispatched a trigger, and no
\* Connected follows from the timer in that iteration; the timer dispatches
\* Connected only for a wake-up that was pending, clears it before the
\* dispatch runs (it is clear even when the dispatch ends the process) and
\* so dispatches at most once since the last completion; a completion of the
\* authentication leaves exactly one wake-up pending, the full delay ahead,
\* whether or not one was pending before.
C29_WakeupClearedAndOnce ==
    [][\A m \in DOMAIN stations' :
          LET frame == /\ Count(out'.events, <<"handle_eapol_tx", m>>) > 0
                       /\ Count(out'.events, <<"EAP in eapol", m>>) = 0
              completed == Count(out'.events, <<"handle_authenticated", m>>) > 0
              fired == ~completed /\ hist'.conn[m].timer > hist.conn[m].timer
          IN /\ (frame /\ proc' = "running")
                   => stations'[m].time_connected = NoneInt /\ ~fired
             /\ fired => /\ m \in DOMAIN stations
                         /\ stations[m].time_connected # NoneInt
                         /\ stations'[m].time_connected = NoneInt
             /\ hist'.conn[m].timer <= 1
             /\ (completed /\ proc' = "running")
                   => /\ stations'[m].time_connected = ConnectedDelay
                      /\ hist'.conn[m].timer = 0]_vars

\* a frame that dispatched no trigger has cleared the pending wake-up of a
\* station
C29_Witness ==
    \E m \in DOMAIN stations :
       /\ hist.cancelled[m]
       /\ Count(out.events, <<"handle_eapol_tx", m>>) > 0
       /\ Count(out.events, <<"EAP in eapol", m>>) = 0
       /\ \A i \in 1..Len(out.calls) : out.calls[i].sta # m
       /\ stations[m].time_connected = NoneInt
       /\ hist.conn[m].timer = 0
       /\ proc = "running"

\* C30: every Inject action that is executed carries a frame: once
\* generation has run no queued Inject action is without a frame, no
\* dispatch has executed an Inject action without one, and the process has
\* not ended on a frame that is absent.
C30_InjectCarriesFrame ==
    /\ test.generated =>
          \A i \in 1..Len(test.actions) :
             test.actions[i].action = Inject => test.actions[i].frame # NoFrame
    /\ \A i \in 1..Len(out.calls) :
          \A j \in 1..Len(out.calls[i].executed) :
             out.calls[i].executed[j].action = Inject
                => out.calls[i].executed[j].frame # NoFrame
    /\ out.error # "AttributeError"

\* C31: a station never has waiting_on_ip and obtained_ip both set;
\* obtained_ip, once set, stays set whatever happens to the connection;
\* waiting_on_ip becomes set only in an iteration in which the station
\* executed a GetIp action as the last action of a dispatch, and becomes
\* clear only in an iteration that gave the station its IP addresses.
C31_IpFlags ==
    [][\A m \in DOMAIN stations' :
          /\ ~(stations'[m].waiting_on_ip /\ stations'[m].obtained_ip)
          /\ m \in DOMAIN stations =>
                /\ ~(stations[m].waiting_on_ip /\ stations[m].obtained_ip)
                /\ stations[m].obtained_ip => stations'[m].obtained_ip
                /\ (stations[m].waiting_on_ip /\ ~stations'[m].waiting_on_ip)
                      => /\ ~stations[m].obtained_ip
                         /\ stations'[m].obtained_ip
                         /\ stations'[m].ip # None
                         /\ stations'[m].peerip # None
          /\ (stations'[m].waiting_on_ip
                /\ (m \in DOMAIN stations => ~stations[m].waiting_on_ip))
                => \E i \in 1..Len(out'.calls) :
                      /\ out'.calls[i].sta = m
                      /\ ~out'.calls[i].pre.waiting_on_ip
                      /\ ~out'.calls[i].pre.obtained_ip
                      /\ Len(out'.calls[i].executed) > 0
                      /\ out'.calls[i].executed[Len(out'.calls[i].executed)].action = GetIp]_vars

\* a station that waited for its IP address has obtained it, and has then
\* gone through a new connection that cleared its keys
C31_Witness ==
    \E m \in DOMAIN stations :
       /\ stations[m].obtained_ip
       /\ ~stations[m].waiting_on_ip
       /\ hist.conn[m].ip > 0
       /\ Count(out.events, <<"handle_connecting", m>>) > 0
       /\ stations[m].tk = None

\* C32: the stations of an access point drain one queue and share its
\* generated flag: a station refers to the one test or, after its success,
\* to none, and then its dispatches execute nothing; the actions taken so
\* far, by whichever station, are distinct actions of the queue, in its
\* order, and no more than the queue holds; every action a dispatch executed
\* was taken by the station of that dispatch and by no other; generation
\* has run at most once, by the station that took the first Inject action.
C32_SharedQueue ==
    /\ \A c \in Calls : ~c.active => c.executed = << >>
    /\ Len(hist.by) = Len(hist.popped)
    /\ NoRepeat(hist.popped)
    /\ Len(hist.popped) <= Len(hist.order)
    /\ hist.popped = SubSeq(hist.order, 1, Len(hist.popped))
    /\ \A c \in Calls :
          \A j \in 1..Len(c.executed) :
             \A i \in 1..Len(hist.popped) :
                hist.popped[i] = c.executed[j].id => hist.by[i] = c.sta
    /\ \A c \in Calls :
          \A j \in 1..Len(c.executed) :
             \E i \in 1..Len(hist.popped) : hist.popped[i] = c.executed[j].id
    /\ hist.genCount <= 1
    /\ (hist.genCount = 0) = (hist.genBy = None)
    /\ \A i \in 1..Len(hist.popped) :
          (/\ hist.popped[i] \in hist.injects
           /\ \A k \in 1..(i - 1) : hist.popped[k] \notin hist.injects)
             => hist.genCount = 1 /\ hist.genBy = hist.by[i]

\* two clients have taken actions of the one queue: the first generated the
\* frames and the second executed an Inject action after it
C32_Witness ==
    /\ Cardinality(DOMAIN stations) = 2
    /\ test.generated
    /\ hist.genCount = 1
    /\ \E i, j \in 1..Len(hist.by) :
          /\ i < j
          /\ hist.by[i] = hist.genBy
          /\ hist.by[j] # hist.genBy
          /\ hist.popped[j] \in hist.injects
    /\ \E c \in Calls :
          /\ c.sta # hist.genBy
          /\ Len(c.executed) > 0
          /\ c.executed[1].action = Inject
          /\ c.executed[1].frame # NoFrame
====
